---- MODULE Spec2Model ----
(***************************************************************************)
(* Queue admission and ticket lifecycle of the queue-management backend.   *)
(*                                                                         *)
(* One business ("B1") owns one queue document and its tickets.  Every     *)
(* call of a handler is a request that runs in a slot; between two awaits  *)
(* of the handler other requests may run, so each action below is the code *)
(* of a handler between two store calls, with the store call itself atomic *)
(* (one document operation).                                               *)
(* ticket.save() writes the modified paths of the document it was called   *)
(* on, whatever the stored document holds by then.                         *)
(*                                                                         *)
(* The checks a handler makes before its first write are the guard of its  *)
(* first action: the ...Outcome operators give the response of those       *)
(* checks ("proceed" when all of them pass).  A request they refuse        *)
(* returns at once and writes nothing.                                     *)
(***************************************************************************)
EXTENDS Integers, Sequences, FiniteSets, TLC

\* ----------------------------------------------------------------- bounds
NumReq == 2         \* requests that may be in flight at once (Spec)
NumAdmit == 3       \* concurrent createTicket requests (SpecAdmit)
MaxTickets == 2     \* tickets ever admitted to the queue
MaxCap == 2         \* largest maxCapacity a queue is given

\* -------------------------------------------------------------- vocabulary
Waiting == "waiting"
Called == "called"
InProgress == "in-progress"
Done == "done"
Cancelled == "cancelled"
Missed == "missed"

Statuses == {Waiting, Called, InProgress, Done, Cancelled, Missed}
TerminalStatuses == {Done, Cancelled, Missed}
SlotStatuses == {Waiting, Called, InProgress}
QueueStatuses == {"active", "paused", "closed"}

\* principals: two end users, the owning business, another business, a staff
\* member of that other business
Users == {"U1", "U2"}
Principals == Users \cup {"B1", "B2", "S2"}
Role(p) == IF p \in Users THEN "user"
           ELSE IF p \in {"B1", "B2"} THEN "business" ELSE "staff"
OwningBusiness == "B1"
\* the principals that take tickets
Creators == {"U1"}

\* results of a request, in the error kinds of the routing layer:
\*   400 on a refused state transition or a full queue -> Conflict
\*   400 on a queue that is not active                 -> Unavailable
\*   403 -> Forbidden, 404 -> NotFound
Results == {"none", "success", "Conflict", "Unavailable", "Forbidden", "NotFound"}

Slots == 1..NumReq
AdmitSlots == 1..NumAdmit

VARIABLES
    queue,      \* the Queue document: status, currentCount, currentTicketNumber, maxCapacity
    tickets,    \* the Ticket collection, in order of Ticket.create
    req,        \* per slot: the request running there
    issued,     \* history: the ticket numbers issued since the queue was last closed
    queues,     \* the Queue collection as createQueue sees it: businessId, date and
                \* maxCapacity of each document, in order of Queue.create
    business,   \* the Business document of the owning business: its status, or
                \* "absent" once it is deleted
    sockets,    \* per socket id: "new" (not connected yet), "live" or "gone"
    rooms,      \* per socket id: the rooms the socket is in (socket.rooms)
    connectedUsers, \* the Map of the socket handler: socket id -> businessId
    inbox,      \* per socket id: the emits it has received (indices of emitted)
    emitted,    \* history: the emits to rooms so far, each with its room, its
                \* event and the members the room had when it was made
    last,       \* the socket message handled last, and what was sent back to
                \* its sender alone (socket.emit)
    estimate,   \* a call of calculateETA: what it reads (h) and what it returns
    released,   \* history: per ticket, how many times a request on it has
                \* lowered currentCount
    etaUpdate   \* the run of updateQueueETAs that a completion started, and the
                \* estimatedTime it has written to each ticket

sockVars == <<sockets, rooms, connectedUsers, inbox, emitted, last>>
vars == <<queue, tickets, req, issued, queues, business, sockVars, estimate, released, etaUpdate>>

\* the socket ids, and a world in which no socket has connected
Conns == {"s1", "s2"}
NoEntry == "none"
Handled(c, msg, b, reply) == [c |-> c, msg |-> msg, b |-> b, reply |-> reply]
NoneReleased == [t \in 1..MaxTickets |-> 0]

\* no run of updateQueueETAs: count is queue.currentCount as the run read it,
\* todo the waiting tickets it found, base the minutes calculateETA gave it,
\* i the ticket of todo it writes next, times the estimatedTime written so far
NoUpdate ==
    [pc |-> "idle", count |-> 0, todo |-> <<>>, base |-> 0, i |-> 0,
     times |-> [t \in 1..MaxTickets |-> 0]]
NoSockets ==
    /\ sockets = [c \in Conns |-> "new"]
    /\ rooms = [c \in Conns |-> {}]
    /\ connectedUsers = [c \in Conns |-> NoEntry]
    /\ inbox = [c \in Conns |-> {}]
    /\ emitted = <<>>
    /\ last = Handled("none", "none", "none", "none")

\* ------------------------------------------------------------------ events
Ev(type, tid) == [type |-> type, tid |-> tid]
QueueEv == Ev("queueUpdated", 0)

\* ------------------------------------------------------------ request slots
\* op/via: the handler and its transport; user: req.user.id, which only
\* createTicket uses after its checks (ticket.userId); tid: the ticket
\* the handler loaded; st: the status that ticket had when it was loaded;
\* cap: queue.maxCapacity as read by createTicket; num: the ticket number the
\* conditional update returned; snap: the waiting tickets closeQueue found;
\* nmod: the tickets its updateMany modified; res/ev: the response and the
\* events the request emitted to the business room; bid/qid: businessId and
\* queueId of the request body; biz: the status of the business document the
\* handler loaded; pay: what became of the card payment of a checkout; eta:
\* the prediction createTicket got from calculateETA, which it writes to the
\* ticket (estimatedTime) and returns in its response; date: new Date(date)
\* of a createQueue request; stamp: the timestamp field that the save of the
\* handler set on the ticket it returns; amount: the amount of a checkout
\* request; charge/refund: the amounts of the payment intent and of the
\* refund the checkout asked Stripe for
IdleReq == [op |-> "none", pc |-> "idle", via |-> "http", user |-> "none",
            tid |-> 0, st |-> "none", cap |-> 0, num |-> 0,
            snap |-> {}, nmod |-> 0, res |-> "none", ev |-> <<>>,
            bid |-> "none", qid |-> "none", biz |-> "none", pay |-> "none",
            eta |-> [minutes |-> 0, method |-> "none"], date |-> 0,
            stamp |-> "none", amount |-> 0, charge |-> 0, refund |-> 0]

NewReq(op, via, p) == [IdleReq EXCEPT !.op = op, !.via = via, !.user = p]

Finished(rq, res, evs) ==
    [rq EXCEPT !.pc = "done", !.res = res, !.ev = evs, !.snap = {}]

Free(r) == req[r].pc = "idle"
InFlight(r) == req[r].pc \notin {"idle", "done", "answered"}

\* a handler that has finished sends its response before anything else runs:
\* the response touches no document
Quiet == \A s \in DOMAIN req : req[s].pc # "done"

\* the handlers, and the order in which the requests in flight are listed: by
\* handler and target ticket.  The order of the slots means nothing to the
\* program; listing the requests in one order keeps one state per set of
\* requests in flight.
Ops == <<"createTicket", "cancelTicket", "noShowTicket", "callTicket",
         "serveTicket", "startTicket", "completeTicket", "callNextTicket",
         "pauseQueue", "resumeQueue", "updateQueue", "closeQueue",
         "deleteQueue", "deleteBusiness", "checkout">>
OpIndex(op) == CHOOSE i \in DOMAIN Ops : Ops[i] = op
SlotKey(rq) == OpIndex(rq.op) * (MaxTickets + 1) + rq.tid

\* a new request may start when the last response is out and a slot is free
CanStart == Quiet /\ \E r \in DOMAIN req : Free(r)

\* the slots with a new request rq added, the slots in use being 1..k
Insert(f, rq) ==
    LET k == 1 + Cardinality({s \in DOMAIN f : f[s].pc # "idle"
                                               /\ SlotKey(f[s]) <= SlotKey(rq)})
    IN [i \in DOMAIN f |-> IF i < k THEN f[i] ELSE IF i = k THEN rq ELSE f[i - 1]]

\* the slots with slot r released
Remove(f, r) ==
    [i \in DOMAIN f |-> IF i < r THEN f[i]
                        ELSE IF i + 1 \in DOMAIN f THEN f[i + 1] ELSE IdleReq]

Start(rq) ==
    /\ CanStart
    /\ req' = Insert(req, rq)

\* request r is about to run the step pc of handler op
At(r, op, pc) == Quiet /\ req[r].op = op /\ req[r].pc = pc

Admitting == {r \in DOMAIN req : req[r].op = "createTicket" /\ InFlight(r)}

TicketIds == 1..Len(tickets)

\* ----------------------------------------------------- store operations
\* a filter that leaves out the capacity condition
AdmitFilterNoCapacity(q, cap) == q.status = "active"

\* Queue.findOneAndUpdate({_id, currentCount: {$lt: cap}, status: "active"}, ...)
AdmitFilterAnyStatus(q, cap) == q.currentCount < cap
AdmitFilterOffByOne(q, cap) == q.currentCount <= cap /\ q.status = "active"

AdmitFilter(q, cap) == q.currentCount < cap /\ q.status = "active"

\* an increment that leaves currentTicketNumber as it was
IncCountOnly(q) == [q EXCEPT !.currentCount = @ + 1]

\* {$inc: {currentCount: 1, currentTicketNumber: 1}}
IncCounters(q) ==
    [q EXCEPT !.currentCount = @ + 1, !.currentTicketNumber = @ + 1]

\* a release that also takes back the ticket number
DecBoth(q) == [q EXCEPT !.currentCount = @ - 1, !.currentTicketNumber = @ - 1]

\* Queue.findByIdAndUpdate(id, {$inc: {currentCount: -1}})
DecCount(q) == [q EXCEPT !.currentCount = @ - 1]

\* Queue.findByIdAndUpdate(id, {status: "closed", currentCount: 0, currentTicketNumber: 0})
CloseUpdate(q) ==
    [q EXCEPT !.status = "closed", !.currentCount = 0, !.currentTicketNumber = 0]

\* Queue.findByIdAndUpdate(id, {status})
SetStatus(q, s) == [q EXCEPT !.status = s]

\* Queue.findByIdAndUpdate(id, {maxCapacity})
SetCapacity(q, c) == [q EXCEPT !.maxCapacity = c]

\* ticket.save() after ticket.status = s
SaveStatus(ts, t, s) == [ts EXCEPT ![t].status = s]

\* Ticket.find({queueId, status: "waiting"})
WaitingIds(ts) == {t \in 1..Len(ts) : ts[t].status = Waiting}

\* Ticket.updateMany({queueId, status: "waiting"}, {status: "cancelled"})
CancelWaiting(ts) ==
    [t \in 1..Len(ts) |-> IF ts[t].status = Waiting
                          THEN [ts[t] EXCEPT !.status = Cancelled] ELSE ts[t]]

\* the same lookup sorted the other way round
LastWaiting(ts) ==
    {t \in WaitingIds(ts) : \A u \in WaitingIds(ts) : ts[t].num >= ts[u].num}

\* Ticket.findOne({queueId, status: "waiting"}).sort({ticketNumber: 1}): the
\* candidates the sort may put first
NextWaiting(ts) ==
    {t \in WaitingIds(ts) : \A u \in WaitingIds(ts) : ts[t].num <= ts[u].num}

\* -------------------------------------------------------------- calculateETA
\* what a call reads: whether Queue.findById finds the queue and its
\* currentCount; the done tickets of the business of the last thirty days
\* (n30, their mean estimatedTime avg30) and those of them created in the
\* hours currentHour - 1 .. currentHour + 1 (nw, avgw); the service type, the
\* hour and the day of the call; and whether a store call fails
NoInput ==
    [found |-> FALSE, count |-> 0, n30 |-> 0, avg30 |-> 0, nw |-> 0, avgw |-> 0,
     stype |-> "none", hour |-> 0, weekend |-> FALSE, fails |-> FALSE]
NoResult == [minutes |-> 0, confidence |-> "none", method |-> "none", base |-> 0]
NoEstimate == estimate = [h |-> NoInput, out |-> NoResult]

DefaultEstimate == 15
MinSamples == 10
MinHourly == 5

\* the base service time and its confidence, looking at the hourly count first
BaseByHourFirst(h) ==
    IF h.nw >= MinHourly
    THEN [base |-> h.avgw, confidence |-> "high", method |-> "hourly_pattern"]
    ELSE IF h.n30 >= MinSamples
    THEN [base |-> h.avg30, confidence |-> "medium",
          method |-> "historical_average"]
    ELSE [base |-> DefaultEstimate, confidence |-> "low", method |-> "default"]

\* the base service time and its confidence
BaseServiceTime(h) ==
    IF h.n30 >= MinSamples
    THEN IF h.nw >= MinHourly
         THEN [base |-> h.avgw, confidence |-> "high",
               method |-> "hourly_pattern"]
         ELSE [base |-> h.avg30, confidence |-> "medium",
               method |-> "historical_average"]
    ELSE [base |-> DefaultEstimate, confidence |-> "low", method |-> "default"]

\* the multipliers, in tenths: serviceMultipliers[serviceType] || 1.0, 1.2 in
\* a peak hour, 0.8 on Saturday and Sunday
ServiceMultiplier(stype) ==
    CASE stype = "examination" -> 10
      [] stype = "consultation" -> 15
      [] stype = "procedure" -> 20
      [] stype = "followup" -> 7
      [] OTHER -> 10
PeakHours == {9, 10, 11, 14, 15, 16}
PeakMultiplier(hour) == IF hour \in PeakHours THEN 12 ELSE 10
WeekendMultiplier(weekend) == IF weekend THEN 8 ELSE 10

\* n / d without its fraction
RoundDown(n, d) == n \div d
\* Math.round(n / d), halves going up
Round(n, d) == (2 * n + d) \div (2 * d)

\* calculateETA
Prediction(h) ==
    IF h.fails
    THEN [minutes |-> DefaultEstimate, confidence |-> "low",
          method |-> "default_fallback", base |-> DefaultEstimate]
    ELSE IF ~h.found
    THEN [minutes |-> DefaultEstimate, confidence |-> "low",
          method |-> "default", base |-> DefaultEstimate]
    ELSE LET b == BaseServiceTime(h)
             m == ServiceMultiplier(h.stype) * PeakMultiplier(h.hour)
                    * WeekendMultiplier(h.weekend)
         IN [minutes |-> Round(h.count * b.base * m, 1000),
             confidence |-> b.confidence, method |-> b.method, base |-> b.base]


\* --------------------------------------------------------------------- Init
\* the date of the queue the ticket handlers work on, in days
Today == 1
\* maxCapacity of a queue created without one
DefaultCapacity == 20
QueueDoc(b, d, c) ==
    [businessId |-> b, date |-> d, maxCapacity |-> IF c = 0 THEN DefaultCapacity ELSE c]

InitQueue(c) == [status |-> "active", currentCount |-> 0,
                 currentTicketNumber |-> 0, maxCapacity |-> c,
                 businessId |-> OwningBusiness]

Init ==
    /\ queue = InitQueue(MaxCap)
    /\ tickets = <<>>
    /\ req = [r \in Slots |-> IdleReq]
    /\ issued = {}
    /\ queues = <<QueueDoc(OwningBusiness, Today, MaxCap)>>
    /\ business = "active"
    /\ NoSockets
    /\ released = NoneReleased
    /\ etaUpdate = NoUpdate
    /\ NoEstimate


\* ------------------------------------------------------------- createTicket
\* a ticket numbered by the counter as it stands when the ticket is written
NewTicketLateNumber(rq) ==
    [num |-> queue.currentTicketNumber, status |-> Waiting, userId |-> rq.user]

NewTicket(rq) == [num |-> rq.num, status |-> Waiting, userId |-> rq.user]

\* the checks before the conditional update: queue.status, then the capacity
CreateOutcome(q) ==
    IF q.status # "active" THEN "Unavailable"
    ELSE IF q.currentCount >= q.maxCapacity THEN "Conflict"
    ELSE "proceed"

\* Business.findById, Queue.findById and the checks; maxCapacity is read
\* here for the filter
CreateTicketCheck(p) ==
    /\ Len(tickets) + Cardinality(Admitting) < MaxTickets
    /\ business = "active"
    /\ CreateOutcome(queue) = "proceed"
    /\ Start([NewReq("createTicket", "http", p) EXCEPT
                 !.pc = "cas", !.cap = queue.maxCapacity])
    /\ UNCHANGED <<queue, tickets, issued, queues, business, sockVars, estimate, released, etaUpdate>>

\* the conditional increment of both counters
CreateTicketCas(r) ==
    /\ At(r, "createTicket", "cas")
    /\ IF AdmitFilter(queue, req[r].cap)
       THEN /\ queue' = IncCounters(queue)
            /\ req' = [req EXCEPT ![r] = [@ EXCEPT !.pc = "create",
                                            !.num = queue'.currentTicketNumber]]
            /\ issued' = issued \cup {queue'.currentTicketNumber}
       ELSE /\ queue' = queue
            /\ req' = [req EXCEPT ![r] = Finished(@, "Conflict", <<>>)]
            /\ issued' = issued
    /\ UNCHANGED <<tickets, queues, business, sockVars, estimate, released, etaUpdate>>

\* minutes per ticket when there is no history to average, and the estimate
\* returned when the calculation throws
\* a calculation whose error reaches its caller
EtaThrows(q, fails) ==
    IF fails THEN [minutes |-> 0, method |-> "error"]
    ELSE [minutes |-> q.currentCount * DefaultEstimate, method |-> "default"]

\* calculateETA for a business with fewer than ten done tickets, an
\* examination, off peak on a weekday: the tickets counted by the queue times
\* the default service time; any error inside is caught and answered with
\* the default estimate
CalculateETA(q, fails) ==
    LET p == Prediction([NoInput EXCEPT !.found = TRUE,
                                        !.count = q.currentCount,
                                        !.stype = "examination",
                                        !.hour = 8, !.fails = fails])
    IN [minutes |-> p.minutes, method |-> p.method]

\* createTicket after calculateETA: a prediction creates the ticket and
\* answers 201 with the two emits; an error would reach the catch block,
\* which answers 500
CreateTicketEnd(rq, eta, tid) ==
    IF eta.method = "error" THEN Finished(rq, "ServerError", <<>>)
    ELSE Finished([rq EXCEPT !.tid = tid, !.eta = eta], "success",
                  <<Ev("ticketCreated", tid), QueueEv>>)

\* calculateETA (reads only), Ticket.create, the two emits and the response
CreateTicketPersist(r) ==
    /\ At(r, "createTicket", "create")
    /\ \E fails \in BOOLEAN :
         LET eta == CalculateETA(queue, fails)
             rq == CreateTicketEnd(req[r], eta, Len(tickets) + 1) IN
         /\ req' = [req EXCEPT ![r] = rq]
         /\ tickets' = IF rq.res = "success"
                       THEN Append(tickets, NewTicket(req[r]))
                       ELSE tickets
    /\ UNCHANGED <<queue, issued, queues, business, sockVars, estimate, released, etaUpdate>>

\* ------------------------------------------------- loading the target ticket
\* restrictTo("business", "staff", "owner") on the staff routes
StaffRoles == {"business", "staff", "owner"}

\* if (req.user.role === "business" && ticket.businessId !== req.user._id) -> 403
OtherBusiness(p) == Role(p) = "business" /\ p # OwningBusiness

\* the staff routes over HTTP: the role check of the route, then the business
\* check of the handler; the socket handlers check neither
StaffForbidden(p, via) ==
    via = "http" /\ (Role(p) \notin StaffRoles \/ OtherBusiness(p))

\* Ticket.findById(id) and the checks that follow it, in the order of the
\* handlers: 404, then 403, then the 400 on the status that was loaded
Checks(ts, t, forbidden, refused) ==
    IF t \notin 1..Len(ts) THEN "NotFound"
    ELSE IF forbidden THEN "Forbidden"
    ELSE IF refused THEN "Conflict"
    ELSE "proceed"

StatusOf(ts, t) == IF t \in 1..Len(ts) THEN ts[t].status ELSE "none"

\* a request that passed its checks goes on to save the ticket it loaded;
\* only cancelTicket keeps what it read of the status (wasWaiting)
Proceed(op, via, t) ==
    /\ Start([NewReq(op, via, "none") EXCEPT
                 !.pc = "save", !.tid = t,
                 !.st = IF op = "cancelTicket" THEN tickets[t].status ELSE "none"])
    /\ UNCHANGED <<queue, tickets, issued, queues, business, sockVars, estimate, released, etaUpdate>>

\* ------------------------------------------------------------- cancelTicket
CancelRefused(st) == st \in {Done, Cancelled, Missed}

CancelOutcome(ts, p, t, via) ==
    Checks(ts, t,
           via = "http" /\ Role(p) = "user" /\ t \in 1..Len(ts) /\ ts[t].userId # p,
           CancelRefused(StatusOf(ts, t)))

CancelTicketFind(p, t, via) ==
    /\ CancelOutcome(tickets, p, t, via) = "proceed"
    /\ Proceed("cancelTicket", via, t)

CancelEvents(rq, decremented) ==
    IF rq.via = "socket" THEN <<Ev("ticketCancelled", rq.tid)>>
    ELSE <<Ev("ticketUpdated", rq.tid), Ev("ticketCancelled", rq.tid)>>
         \o (IF decremented THEN <<QueueEv>> ELSE <<>>)

\* a handler that releases the slot whatever the status was
AlwaysReleases(st) == TRUE

\* wasWaiting: the status the handler loaded, looked at before the save
WasWaiting(st) == st = Waiting

CancelTicketSave(r) ==
    /\ At(r, "cancelTicket", "save")
    /\ tickets' = SaveStatus(tickets, req[r].tid, Cancelled)
    /\ req' = [req EXCEPT ![r] =
                 IF WasWaiting(@.st) THEN [@ EXCEPT !.pc = "dec"]
                 ELSE Finished(@, "success", CancelEvents(@, FALSE))]
    /\ UNCHANGED <<queue, issued, queues, business, sockVars, estimate, released, etaUpdate>>

CancelTicketDec(r) ==
    /\ At(r, "cancelTicket", "dec")
    /\ queue' = DecCount(queue)
    /\ released' = [released EXCEPT ![req[r].tid] = @ + 1]
    /\ req' = [req EXCEPT ![r] = Finished(@, "success", CancelEvents(@, TRUE))]
    /\ UNCHANGED <<tickets, issued, queues, business, sockVars, estimate, etaUpdate>>

\* ------------------------------------------------- noShowTicket / skipTicket
NoShowRefused(st) == st # Waiting

NoShowOutcome(ts, p, t, via) ==
    Checks(ts, t, StaffForbidden(p, via), NoShowRefused(StatusOf(ts, t)))

NoShowTicketFind(p, t, via) ==
    /\ NoShowOutcome(tickets, p, t, via) = "proceed"
    /\ Proceed("noShowTicket", via, t)

NoShowTicketSave(r) ==
    /\ At(r, "noShowTicket", "save")
    /\ tickets' = SaveStatus(tickets, req[r].tid, Missed)
    /\ req' = [req EXCEPT ![r] = [@ EXCEPT !.pc = "dec"]]
    /\ UNCHANGED <<queue, issued, queues, business, sockVars, estimate, released, etaUpdate>>

NoShowEvents(rq) ==
    IF rq.via = "socket" THEN <<Ev("ticketSkipped", rq.tid)>>
    ELSE <<Ev("ticketUpdated", rq.tid), Ev("ticketSkipped", rq.tid), QueueEv>>

NoShowTicketDec(r) ==
    /\ At(r, "noShowTicket", "dec")
    /\ queue' = DecCount(queue)
    /\ released' = [released EXCEPT ![req[r].tid] = @ + 1]
    /\ req' = [req EXCEPT ![r] = Finished(@, "success", NoShowEvents(@))]
    /\ UNCHANGED <<tickets, issued, queues, business, sockVars, estimate, etaUpdate>>

\* ---------------------------------------------------------------- callTicket
CallRefused(st) == st # Waiting

CallOutcome(ts, p, t, via) ==
    Checks(ts, t, StaffForbidden(p, via), CallRefused(StatusOf(ts, t)))

\* the request keeps its principal (req.user over HTTP, the sender of the
\* message over the socket)
CallTicketFind(p, t, via) ==
    /\ CallOutcome(tickets, p, t, via) = "proceed"
    /\ Start([NewReq("callTicket", via, p) EXCEPT !.pc = "save", !.tid = t])
    /\ UNCHANGED <<queue, tickets, issued, queues, business, sockVars, estimate, released, etaUpdate>>

CallEvents(rq) ==
    IF rq.via = "socket" THEN <<Ev("ticketCalled", rq.tid)>>
    ELSE <<Ev("ticketCalled", rq.tid), Ev("ticketUpdated", rq.tid)>>

CallTicketSave(r) ==
    /\ At(r, "callTicket", "save")
    /\ tickets' = SaveStatus(tickets, req[r].tid, Called)
    /\ req' = [req EXCEPT ![r] = Finished(@, "success", CallEvents(@))]
    /\ UNCHANGED <<queue, issued, queues, business, sockVars, estimate, released, etaUpdate>>

\* ------------------------------------------------- serveTicket / startTicket
ServeRefused(st) == st \notin {Called, Waiting}

ServeOutcome(ts, p, t) ==
    Checks(ts, t, StaffForbidden(p, "http"), ServeRefused(StatusOf(ts, t)))

ServeTicketFind(p, t) ==
    /\ ServeOutcome(tickets, p, t) = "proceed"
    /\ Proceed("serveTicket", "http", t)

ServeTicketSave(r) ==
    /\ At(r, "serveTicket", "save")
    /\ tickets' = SaveStatus(tickets, req[r].tid, InProgress)
    /\ req' = [req EXCEPT ![r] =
                 Finished([@ EXCEPT !.stamp = "startedAt"], "success",
                          <<Ev("ticketUpdated", @.tid)>>)]
    /\ UNCHANGED <<queue, issued, queues, business, sockVars, estimate, released, etaUpdate>>

\* startTicket has the role check of its route and no business check; its
\* save writes the status alone
StartOutcome(ts, p, t) ==
    Checks(ts, t, Role(p) \notin StaffRoles, ServeRefused(StatusOf(ts, t)))

StartTicketFind(p, t) ==
    /\ StartOutcome(tickets, p, t) = "proceed"
    /\ Proceed("startTicket", "http", t)

StartTicketSave(r) ==
    /\ At(r, "startTicket", "save")
    /\ tickets' = SaveStatus(tickets, req[r].tid, InProgress)
    /\ req' = [req EXCEPT ![r] = Finished(@, "success", <<>>)]
    /\ UNCHANGED <<queue, issued, queues, business, sockVars, estimate, released, etaUpdate>>

\* ------------------------------------------------------------ completeTicket
CompleteRefused(st) == st = Done

CompleteOutcome(ts, p, t, via) ==
    Checks(ts, t, StaffForbidden(p, via), CompleteRefused(StatusOf(ts, t)))

CompleteTicketFind(p, t, via) ==
    /\ CompleteOutcome(tickets, p, t, via) = "proceed"
    /\ Proceed("completeTicket", via, t)

CompleteEvents(rq) ==
    IF rq.via = "socket" THEN <<Ev("ticketCompleted", rq.tid)>>
    ELSE <<Ev("ticketUpdated", rq.tid), Ev("ticketCompleted", rq.tid), QueueEv>>

\* ticket.save(), the emits, Queue.findById for the queue event; the queue
\* counters are not written
CompleteTicketSave(r) ==
    /\ At(r, "completeTicket", "save")
    /\ tickets' = SaveStatus(tickets, req[r].tid, Done)
    /\ req' = [req EXCEPT ![r] = Finished(@, "success", CompleteEvents(@))]
    /\ UNCHANGED <<queue, issued, queues, business, sockVars, estimate, released, etaUpdate>>

\* ------------------------------------------------------------ callNextTicket
\* Queue.findById, the status check, then the business check
CallNextOutcome(q, p) ==
    IF q.status # "active" THEN "Unavailable"
    ELSE IF OtherBusiness(p) THEN "Forbidden"
    ELSE "proceed"

CallNextTicketQueue(p) ==
    /\ CallNextOutcome(queue, p) = "proceed"
    /\ Start([NewReq("callNextTicket", "http", p) EXCEPT !.pc = "find"])
    /\ UNCHANGED <<queue, tickets, issued, queues, business, sockVars, estimate, released, etaUpdate>>

\* Ticket.findOne({queueId, status: "waiting"}).sort({ticketNumber: 1})
CallNextTicketFind(r) ==
    /\ At(r, "callNextTicket", "find")
    /\ IF WaitingIds(tickets) = {}
       THEN req' = [req EXCEPT ![r] = Finished(@, "NotFound", <<>>)]
       ELSE \E t \in NextWaiting(tickets) :
              req' = [req EXCEPT ![r] = [@ EXCEPT !.pc = "save", !.tid = t]]
    /\ UNCHANGED <<queue, tickets, issued, queues, business, sockVars, estimate, released, etaUpdate>>

CallNextTicketSave(r) ==
    /\ At(r, "callNextTicket", "save")
    /\ tickets' = SaveStatus(tickets, req[r].tid, Called)
    /\ req' = [req EXCEPT ![r] =
                 Finished(@, "success", <<Ev("ticketCalled", @.tid),
                                          Ev("ticketUpdated", @.tid),
                                          Ev("callNext", @.tid)>>)]
    /\ UNCHANGED <<queue, issued, queues, business, sockVars, estimate, released, etaUpdate>>

\* ------------------------------------- pauseQueue / resumeQueue / updateQueue
QueueReq(op) == Finished(NewReq(op, "http", "none"), "success", <<QueueEv>>)

PauseQueue ==
    /\ Start(QueueReq("pauseQueue"))
    /\ queue' = SetStatus(queue, "paused")
    /\ UNCHANGED <<tickets, issued, queues, business, sockVars, estimate, released, etaUpdate>>

ResumeQueue ==
    /\ Start(QueueReq("resumeQueue"))
    /\ queue' = SetStatus(queue, "active")
    /\ UNCHANGED <<tickets, issued, queues, business, sockVars, estimate, released, etaUpdate>>

UpdateQueue(c) ==
    /\ Start(QueueReq("updateQueue"))
    /\ queue' = SetCapacity(queue, c)
    /\ UNCHANGED <<tickets, issued, queues, business, sockVars, estimate, released, etaUpdate>>

\* ---------------------------------------------------------------- closeQueue
\* Ticket.find({queueId, status: "waiting"})
CloseQueueFind ==
    /\ Start([NewReq("closeQueue", "http", "none") EXCEPT
                 !.pc = "many", !.snap = WaitingIds(tickets)])
    /\ UNCHANGED <<queue, tickets, issued, queues, business, sockVars, estimate, released, etaUpdate>>

\* Ticket.updateMany({queueId, status: "waiting"}, {status: "cancelled", ...})
CloseQueueCancel(r) ==
    /\ At(r, "closeQueue", "many")
    /\ tickets' = CancelWaiting(tickets)
    /\ req' = [req EXCEPT ![r] = [@ EXCEPT !.pc = "upd",
                                         !.nmod = Cardinality(WaitingIds(tickets))]]
    /\ UNCHANGED <<queue, issued, queues, business, sockVars, estimate, released, etaUpdate>>

\* waitingTickets.forEach: ticketUpdated and ticketCancelled for each ticket of
\* the list found at the start
RECURSIVE CloseEvents(_)
CloseEvents(S) ==
    IF S = {} THEN <<>>
    ELSE LET t == CHOOSE x \in S : \A y \in S : x <= y
         IN <<Ev("ticketUpdated", t), Ev("ticketCancelled", t)>> \o CloseEvents(S \ {t})

\* Queue.findByIdAndUpdate(queueId, {status: "closed", currentCount: 0,
\* currentTicketNumber: 0}), then the emits
CloseQueueUpdate(r) ==
    /\ At(r, "closeQueue", "upd")
    /\ queue' = CloseUpdate(queue)
    /\ issued' = {}
    /\ req' = [req EXCEPT ![r] =
                 Finished(@, "success", <<QueueEv>> \o CloseEvents(@.snap))]
    /\ UNCHANGED <<tickets, queues, business, sockVars, estimate, released, etaUpdate>>

\* ----------------------------------------------------------------- response
\* return res.json(...)
Respond(r) ==
    /\ req[r].pc = "done"
    /\ req' = Remove(req, r)
    /\ UNCHANGED <<queue, tickets, issued, queues, business, sockVars, estimate, released, etaUpdate>>

\* ------------------------------------------------------------ specifications
\* Spec: the HTTP handlers of the ticket lifecycle on a queue of capacity
\* MaxCap, on any ticket of the queue, at most NumReq requests in flight.  The
\* owning business acts on the queue and its tickets, and the user who took a
\* ticket may cancel it; what the checks answer to the other principals is a
\* matter of the ...Outcome operators.
Staff == {"B1"}
Cancellers == {"B1", "U1"}
Next ==
    \/ \E p \in Creators : CreateTicketCheck(p)
    \/ \E r \in Slots : CreateTicketCas(r)
    \/ \E r \in Slots : CreateTicketPersist(r)
    \/ \E p \in Cancellers, t \in TicketIds : CancelTicketFind(p, t, "http")
    \/ \E r \in Slots : CancelTicketSave(r)
    \/ \E r \in Slots : CancelTicketDec(r)
    \/ \E p \in Staff, t \in TicketIds : NoShowTicketFind(p, t, "http")
    \/ \E r \in Slots : NoShowTicketSave(r)
    \/ \E r \in Slots : NoShowTicketDec(r)
    \/ \E p \in Staff, t \in TicketIds : CallTicketFind(p, t, "http")
    \/ \E r \in Slots : CallTicketSave(r)
    \/ \E p \in Staff, t \in TicketIds : ServeTicketFind(p, t)
    \/ \E r \in Slots : ServeTicketSave(r)
    \/ \E p \in Staff, t \in TicketIds : StartTicketFind(p, t)
    \/ \E r \in Slots : StartTicketSave(r)
    \/ \E p \in Staff, t \in TicketIds : CompleteTicketFind(p, t, "http")
    \/ \E r \in Slots : CompleteTicketSave(r)
    \/ \E p \in Staff : CallNextTicketQueue(p)
    \/ \E r \in Slots : CallNextTicketFind(r)
    \/ \E r \in Slots : CallNextTicketSave(r)
    \/ PauseQueue
    \/ ResumeQueue
    \/ CloseQueueFind
    \/ \E r \in Slots : CloseQueueCancel(r)
    \/ \E r \in Slots : CloseQueueUpdate(r)
    \/ \E r \in Slots : Respond(r)

Spec == Init /\ [][Next]_vars

\* SpecAdmit: NumAdmit createTicket requests against a queue that starts
\* empty; each slot carries one request and keeps its response
InitAdmit ==
    /\ \E c \in 1..MaxCap : queue = InitQueue(c)
    /\ tickets = <<>>
    /\ req = [r \in AdmitSlots |-> IdleReq]
    /\ issued = {}
    /\ queues = <<QueueDoc(OwningBusiness, Today, MaxCap)>>
    /\ business = "active"
    /\ NoSockets
    /\ released = NoneReleased
    /\ etaUpdate = NoUpdate
    /\ NoEstimate

\* createTicket up to its conditional update, the refusals of its checks kept
AdmitOnce(r, p) ==
    LET rq == NewReq("createTicket", "http", p) IN
    /\ Quiet
    /\ Free(r)
    /\ \A s \in AdmitSlots : s < r => ~Free(s)
    /\ req' = [req EXCEPT ![r] =
                 IF CreateOutcome(queue) = "proceed"
                 THEN [rq EXCEPT !.pc = "cas", !.cap = queue.maxCapacity]
                 ELSE Finished(rq, CreateOutcome(queue), <<>>)]
    /\ UNCHANGED <<queue, tickets, issued, queues, business, sockVars, estimate, released, etaUpdate>>

AdmitAnswer(r) ==
    /\ req[r].pc = "done"
    /\ req' = [req EXCEPT ![r] = [@ EXCEPT !.pc = "answered"]]
    /\ UNCHANGED <<queue, tickets, issued, queues, business, sockVars, estimate, released, etaUpdate>>

NextAdmit ==
    \/ \E r \in AdmitSlots, p \in Creators : AdmitOnce(r, p)
    \/ \E r \in AdmitSlots : CreateTicketCas(r)
    \/ \E r \in AdmitSlots : CreateTicketPersist(r)
    \/ \E r \in AdmitSlots : AdmitAnswer(r)

SpecAdmit == InitAdmit /\ [][NextAdmit]_vars

\* SpecCapacity: admissions and cancellations while updateQueue changes
\* maxCapacity
InitCapacity ==
    /\ \E c \in 1..MaxCap : queue = InitQueue(c)
    /\ tickets = <<>>
    /\ req = [r \in Slots |-> IdleReq]
    /\ issued = {}
    /\ queues = <<QueueDoc(OwningBusiness, Today, MaxCap)>>
    /\ business = "active"
    /\ NoSockets
    /\ released = NoneReleased
    /\ etaUpdate = NoUpdate
    /\ NoEstimate

NextCapacity ==
    \/ \E p \in Creators : CreateTicketCheck(p)
    \/ \E r \in Slots : CreateTicketCas(r)
    \/ \E r \in Slots : CreateTicketPersist(r)
    \/ \E p \in Cancellers, t \in TicketIds : CancelTicketFind(p, t, "http")
    \/ \E r \in Slots : CancelTicketSave(r)
    \/ \E r \in Slots : CancelTicketDec(r)
    \/ \E c \in 1..MaxCap : UpdateQueue(c)
    \/ \E r \in Slots : Respond(r)

SpecCapacity == InitCapacity /\ [][NextCapacity]_vars

\* SpecRealtime: the transitions that exist both as an HTTP route and as a
\* message of the socket handler (no-show/skip, cancel, complete), over
\* tickets that HTTP requests admit, call and serve
Transports == {"http", "socket"}

NextRealtime ==
    \/ \E p \in Creators : CreateTicketCheck(p)
    \/ \E r \in Slots : CreateTicketCas(r)
    \/ \E r \in Slots : CreateTicketPersist(r)
    \/ \E p \in Staff, t \in TicketIds : CallTicketFind(p, t, "http")
    \/ \E r \in Slots : CallTicketSave(r)
    \/ \E p \in Staff, t \in TicketIds : ServeTicketFind(p, t)
    \/ \E r \in Slots : ServeTicketSave(r)
    \/ \E p \in Staff, t \in TicketIds, via \in Transports :
          NoShowTicketFind(p, t, via)
    \/ \E r \in Slots : NoShowTicketSave(r)
    \/ \E r \in Slots : NoShowTicketDec(r)
    \/ \E p \in Staff, t \in TicketIds, via \in Transports :
          CancelTicketFind(p, t, via)
    \/ \E r \in Slots : CancelTicketSave(r)
    \/ \E r \in Slots : CancelTicketDec(r)
    \/ \E p \in Staff, t \in TicketIds, via \in Transports :
          CompleteTicketFind(p, t, via)
    \/ \E r \in Slots : CompleteTicketSave(r)
    \/ \E r \in Slots : Respond(r)

SpecRealtime == Init /\ [][NextRealtime]_vars

\* ------------------------------------------------- calculateETA, any history
\* SpecEta: one call of calculateETA on any history of up to MaxSamples done
\* tickets, with mean times from Durations
MaxSamples == 11
Durations == {10, 20}
ServiceTypes == {"examination", "consultation", "procedure", "followup", "other"}
Hours == {8, 9}
EtaInputs ==
    {h \in [found : BOOLEAN, count : 0..MaxCap, n30 : 0..MaxSamples,
            avg30 : Durations \cup {0}, nw : 0..MaxSamples,
            avgw : Durations \cup {0}, stype : ServiceTypes, hour : Hours,
            weekend : BOOLEAN, fails : BOOLEAN] :
        /\ h.nw <= h.n30
        /\ (h.n30 = 0) = (h.avg30 = 0)
        /\ (h.nw = 0) = (h.avgw = 0)
        /\ h.nw = h.n30 => h.avgw = h.avg30}

InitEta ==
    /\ queue = InitQueue(MaxCap)
    /\ tickets = <<>>
    /\ req = [r \in Slots |-> IdleReq]
    /\ issued = {}
    /\ queues = <<QueueDoc(OwningBusiness, Today, MaxCap)>>
    /\ business = "active"
    /\ NoSockets
    /\ released = NoneReleased
    /\ etaUpdate = NoUpdate
    /\ estimate \in [h : EtaInputs, out : {NoResult}]

Estimate ==
    /\ estimate.out = NoResult
    /\ estimate' = [estimate EXCEPT !.out = Prediction(estimate.h)]
    /\ UNCHANGED <<queue, tickets, req, issued, queues, business, sockVars, released, etaUpdate>>

NextEta == Estimate
SpecEta == InitEta /\ [][NextEta]_vars

\* ------------------------------------------------------- the socket handler
\* SpecSockets: Conns connect, join and leave the rooms of two businesses and
\* disconnect, while the controllers emit ticket events to the rooms; the
\* emits of a run are bounded by MaxEmits.  The store is left alone.
Rooms == {"B1", "B2"}
MaxEmits == 3
storeVars == <<queue, tickets, req, issued, queues, business, estimate, released, etaUpdate>>

\* io.sockets.adapter.rooms.get(room): the sockets that are in the room
Members(rs, b) == {c \in Conns : b \in rs[c]}

\* io.emit: every connected socket
EveryConnection(rs, b, from) == {c \in Conns : sockets[c] = "live"} \ {from}
\* io.to(room).emit and socket.to(room).emit: the sockets of the room
Receivers(rs, b, from) == Members(rs, b) \ {from}

\* an emit to a room writes the event to every socket that is in the room when
\* emit is called, the sender excepted when it is made through socket.to; rs
\* is the membership at that moment
EmitTo(rs, b, e, from) ==
    /\ emitted' = Append(emitted, [room |-> b, event |-> e, from |-> from,
                                   members |-> Members(rs, b)])
    /\ inbox' = [c \in Conns |->
                   IF c \in Receivers(rs, b, from)
                   THEN inbox[c] \cup {Len(emitted) + 1} ELSE inbox[c]]

\* socket.join(room) and socket.leave(room)
JoinRoom(rs, b) == rs \cup {b}
KeepRooms(rs, b) == rs
LeaveRoom(rs, b) == rs \ {b}

\* io.on("connection")
Connect(c) ==
    /\ sockets[c] = "new"
    /\ sockets' = [sockets EXCEPT ![c] = "live"]
    /\ last' = Handled(c, "connection", "none", "none")
    /\ UNCHANGED <<rooms, connectedUsers, inbox, emitted, storeVars>>

\* socket.on("joinBusiness"); b = "none": the message names no business
JoinBusiness(c, b) ==
    /\ sockets[c] = "live"
    /\ IF b = "none"
       THEN /\ last' = Handled(c, "joinBusiness", b, "error")
            /\ UNCHANGED <<rooms, connectedUsers, inbox, emitted>>
       ELSE /\ Len(emitted) < MaxEmits
            /\ rooms' = [rooms EXCEPT ![c] = JoinRoom(@, b)]
            /\ connectedUsers' = [connectedUsers EXCEPT ![c] = b]
            /\ EmitTo(rooms', b, "userJoined", c)
            /\ last' = Handled(c, "joinBusiness", b, "joinedBusiness")
    /\ UNCHANGED <<sockets, storeVars>>

\* socket.on("joinClinic"): sends a joinBusiness event back to the client
JoinClinic(c, b) ==
    /\ sockets[c] = "live"
    /\ last' = Handled(c, "joinClinic", b, "joinBusiness")
    /\ UNCHANGED <<sockets, rooms, connectedUsers, inbox, emitted, storeVars>>

\* socket.on("leaveBusiness")
LeaveBusiness(c, b) ==
    /\ sockets[c] = "live"
    /\ rooms' = [rooms EXCEPT ![c] = LeaveRoom(@, b)]
    /\ connectedUsers' = [connectedUsers EXCEPT ![c] = NoEntry]
    /\ last' = Handled(c, "leaveBusiness", b, "none")
    /\ UNCHANGED <<sockets, inbox, emitted, storeVars>>

\* socket.on("disconnect"): the socket has left its rooms when the handler runs
Disconnect(c) ==
    /\ sockets[c] = "live"
    /\ sockets' = [sockets EXCEPT ![c] = "gone"]
    /\ rooms' = [rooms EXCEPT ![c] = {}]
    /\ IF connectedUsers[c] # NoEntry
       THEN /\ Len(emitted) < MaxEmits
            /\ EmitTo(rooms', connectedUsers[c], "userLeft", c)
       ELSE UNCHANGED <<inbox, emitted>>
    /\ connectedUsers' = [connectedUsers EXCEPT ![c] = NoEntry]
    /\ last' = Handled(c, "disconnect", "none", "none")
    /\ UNCHANGED storeVars

\* emitTicketUpdated(businessId, ticket), as every helper that emits to the
\* room of a business: io.to(room).emit
EmitTicketUpdated(b) ==
    /\ Len(emitted) < MaxEmits
    /\ EmitTo(rooms, b, "ticketUpdated", "io")
    /\ last' = Handled("io", "emit", b, "none")
    /\ UNCHANGED <<sockets, rooms, connectedUsers, storeVars>>

NextSockets ==
    \/ \E c \in Conns : Connect(c)
    \/ \E c \in Conns, b \in Rooms \cup {"none"} : JoinBusiness(c, b)
    \/ \E c \in Conns, b \in Rooms : JoinClinic(c, b)
    \/ \E c \in Conns, b \in Rooms : LeaveBusiness(c, b)
    \/ \E c \in Conns : Disconnect(c)
    \/ \E b \in Rooms : EmitTicketUpdated(b)

SpecSockets == Init /\ [][NextSockets]_vars

\* --------------------------------------------- who may call a waiting ticket
\* the three paths that take a ticket from waiting to called, each open to
\* every principal that can send the request: the HTTP routes to the roles
\* the route lets through, the socket message to any connected client
HttpCallers == {p \in Principals : Role(p) \in StaffRoles}

NextCall ==
    \/ \E p \in Creators : CreateTicketCheck(p)
    \/ \E r \in Slots : CreateTicketCas(r)
    \/ \E r \in Slots : CreateTicketPersist(r)
    \/ \E p \in Principals, t \in TicketIds : CallTicketFind(p, t, "http")
    \/ \E p \in Principals, t \in TicketIds : CallTicketFind(p, t, "socket")
    \/ \E r \in Slots : CallTicketSave(r)
    \/ \E p \in HttpCallers : CallNextTicketQueue(p)
    \/ \E r \in Slots : CallNextTicketFind(r)
    \/ \E r \in Slots : CallNextTicketSave(r)
    \/ \E r \in Slots : Respond(r)

SpecCall == Init /\ [][NextCall]_vars

\* ------------------------------------------------ deleteQueue, deleteBusiness
\* SpecDelete: deleteQueue and deleteBusiness (DELETE /me of the owning
\* business) while tickets are admitted.  A deleted queue document is shown
\* by the status "deleted": no filter and no check matches it any more
Deleted == "deleted"

\* the tickets countDocuments finds: waiting, called or in progress
ActiveCount(ts) ==
    Cardinality({t \in 1..Len(ts) : ts[t].status \in SlotStatuses})

\* the queue documents left by a delete of those of business b on date d
WithoutQueue(qs, b, d) ==
    SelectSeq(qs, LAMBDA q : ~(q.businessId = b /\ q.date = d))

\* Ticket.deleteMany({businessId, status: {$in: [waiting, called, in-progress]}})
WithoutActive(ts) == SelectSeq(ts, LAMBDA t : t.status \notin SlotStatuses)

\* Queue.findById: 404 when the queue is gone
DeleteQueueFind ==
    /\ queue.status # Deleted
    /\ Start([NewReq("deleteQueue", "http", OwningBusiness) EXCEPT !.pc = "count"])
    /\ UNCHANGED <<queue, tickets, issued, queues, business, sockVars, estimate, released, etaUpdate>>

\* Ticket.countDocuments and the refusal when a ticket is active
DeleteQueueCount(r) ==
    /\ At(r, "deleteQueue", "count")
    /\ req' = [req EXCEPT ![r] =
                 IF ActiveCount(tickets) > 0 THEN Finished(@, "Conflict", <<>>)
                 ELSE [@ EXCEPT !.pc = "delete"]]
    /\ UNCHANGED <<queue, tickets, issued, queues, business, sockVars, estimate, released, etaUpdate>>

\* Queue.findByIdAndDelete and the response
DeleteQueueDelete(r) ==
    /\ At(r, "deleteQueue", "delete")
    /\ queue' = SetStatus(queue, Deleted)
    /\ queues' = WithoutQueue(queues, queue.businessId, Today)
    /\ req' = [req EXCEPT ![r] = Finished(@, "success", <<>>)]
    /\ UNCHANGED <<tickets, issued, business, sockVars, estimate, released, etaUpdate>>

\* Business.findByIdAndDelete(req.user._id): 404 when there is none
DeleteBusinessStart ==
    /\ business # "absent"
    /\ Start([NewReq("deleteBusiness", "http", OwningBusiness) EXCEPT !.pc = "queues"])
    /\ business' = "absent"
    /\ UNCHANGED <<queue, tickets, issued, queues, sockVars, estimate, released, etaUpdate>>

\* Queue.deleteMany({businessId})
DeleteBusinessQueues(r) ==
    /\ At(r, "deleteBusiness", "queues")
    /\ queue' = SetStatus(queue, Deleted)
    /\ queues' = SelectSeq(queues, LAMBDA q : q.businessId # queue.businessId)
    /\ req' = [req EXCEPT ![r] = [@ EXCEPT !.pc = "tickets"]]
    /\ UNCHANGED <<tickets, issued, business, sockVars, estimate, released, etaUpdate>>

\* Ticket.deleteMany of the active tickets, and the response
DeleteBusinessTickets(r) ==
    /\ At(r, "deleteBusiness", "tickets")
    /\ tickets' = WithoutActive(tickets)
    /\ req' = [req EXCEPT ![r] = Finished(@, "success", <<>>)]
    /\ UNCHANGED <<queue, issued, queues, business, sockVars, estimate, released, etaUpdate>>

NextDelete ==
    \/ \E p \in Creators : CreateTicketCheck(p)
    \/ \E r \in Slots : CreateTicketCas(r)
    \/ \E r \in Slots : CreateTicketPersist(r)
    \/ DeleteQueueFind
    \/ \E r \in Slots : DeleteQueueCount(r)
    \/ \E r \in Slots : DeleteQueueDelete(r)
    \/ DeleteBusinessStart
    \/ \E r \in Slots : DeleteBusinessQueues(r)
    \/ \E r \in Slots : DeleteBusinessTickets(r)
    \/ \E r \in Slots : Respond(r)

SpecDelete == Init /\ [][NextDelete]_vars

\* -------------------------------------------- createTicket, all its checks
\* SpecEntry: admission requests (createTicket and card checkout) with any
\* body, against a business that may be missing or not active and a queue in
\* any status, of either business
TheQueue == "Q1"
BusinessIds == {"none", "B1", "B2"}      \* "none": the field is missing
QueueIds == {"none", "Q1", "Q2"}         \* "Q2": no such queue
BusinessDocs == {"absent", "active", "inactive"}

BusinessIdRequired == "businessId is required"
QueueIdRequired == "queueId is required"
BusinessNotFound == "Business not found"
BusinessClosed == "Business is closed"
QueueNotFound == "Queue not found"
QueueNotOfBusiness == "Queue does not belong to this business"
QueueNotAccepting == "Queue not accepting tickets"
QueueFull == "Queue is full"

\* the same checks with the capacity looked at before the queue status
CreateChecksCapacityFirst(bid, qid, biz, q) ==
    IF bid = "none" THEN BusinessIdRequired
    ELSE IF qid = "none" THEN QueueIdRequired
    ELSE IF biz = "absent" THEN BusinessNotFound
    ELSE IF biz # "active" THEN BusinessClosed
    ELSE IF qid # TheQueue THEN QueueNotFound
    ELSE IF q.businessId # bid THEN QueueNotOfBusiness
    ELSE IF q.currentCount >= q.maxCapacity THEN QueueFull
    ELSE IF q.status # "active" THEN QueueNotAccepting
    ELSE "proceed"

\* the checks of createTicket up to the conditional update, in the order of
\* the code; biz is what Business.findById returned, q the queue document
CreateChecks(bid, qid, biz, q) ==
    IF bid = "none" THEN BusinessIdRequired
    ELSE IF qid = "none" THEN QueueIdRequired
    ELSE IF biz = "absent" THEN BusinessNotFound
    ELSE IF biz # "active" THEN BusinessClosed
    ELSE IF qid # TheQueue THEN QueueNotFound
    ELSE IF q.businessId # bid THEN QueueNotOfBusiness
    ELSE IF q.status # "active" THEN QueueNotAccepting
    ELSE IF q.currentCount >= q.maxCapacity THEN QueueFull
    ELSE "proceed"

\* a queue of business b that holds n waiting tickets
QueueWith(b, st, n, c) ==
    [status |-> st, currentCount |-> n, currentTicketNumber |-> n,
     maxCapacity |-> c, businessId |-> b]

InitEntry ==
    /\ \E b \in {"B1", "B2"}, st \in QueueStatuses, c \in 1..MaxCap :
         \E n \in 0..c :
           /\ queue = QueueWith(b, st, n, c)
           /\ tickets = [i \in 1..n |->
                           [num |-> i, status |-> Waiting, userId |-> "U2"]]
           /\ issued = 1..n
    /\ req = [r \in Slots |-> IdleReq]
    /\ queues = <<QueueDoc(queue.businessId, Today, queue.maxCapacity)>>
    /\ business \in BusinessDocs
    /\ NoSockets
    /\ released = NoneReleased
    /\ etaUpdate = NoUpdate
    /\ NoEstimate

\* createTicket from the request to the conditional update, its refusals
\* answered with their message
CreateTicketRequest(r, p, bid, qid) ==
    LET rq == [NewReq("createTicket", "http", p) EXCEPT
                  !.bid = bid, !.qid = qid, !.biz = business]
        out == CreateChecks(bid, qid, business, queue) IN
    /\ Quiet
    /\ Free(r)
    /\ \A s \in Slots : s < r => ~Free(s)
    /\ req' = [req EXCEPT ![r] =
                 IF out = "proceed"
                 THEN [rq EXCEPT !.pc = "cas", !.cap = queue.maxCapacity]
                 ELSE Finished(rq, out, <<>>)]
    /\ UNCHANGED <<queue, tickets, issued, queues, business, sockVars, estimate, released, etaUpdate>>

\* ------------------------------------------------ checkoutCardAndCreateTicket
CheckoutFieldsRequired == "businessId, queueId, amount, paymentMethodId are required"
PaymentFailed == "Payment failed"
QueueFullRefunded == "Queue is full. Refunded payment."

\* the checks before the payment; card: amount and paymentMethodId are given.
\* The capacity is not looked at here
CheckoutChecks(bid, qid, card, biz, q) ==
    IF bid = "none" \/ qid = "none" \/ ~card THEN CheckoutFieldsRequired
    ELSE IF biz = "absent" THEN BusinessNotFound
    ELSE IF biz # "active" THEN BusinessClosed
    ELSE IF qid # TheQueue THEN QueueNotFound
    ELSE IF q.businessId # bid THEN QueueNotOfBusiness
    ELSE IF q.status # "active" THEN QueueNotAccepting
    ELSE "proceed"

\* the amounts of the requests that pass the checks
Amounts == {1, 2}

\* Math.round(Number(amount) * 100)
Cents(amount) == Round(amount * 100, 1)

\* the refund asked for in the units of the request
RefundInUnits(rq) == rq.amount

\* the amount of stripe.refunds.create
RefundAmount(rq) == Cents(rq.amount)

CheckoutRequest(r, p, bid, qid, card) ==
    LET rq == [NewReq("checkout", "http", p) EXCEPT
                  !.bid = bid, !.qid = qid, !.biz = business]
        out == CheckoutChecks(bid, qid, card, business, queue) IN
    /\ Quiet
    /\ Free(r)
    /\ \A s \in Slots : s < r => ~Free(s)
    /\ IF out = "proceed"
       THEN \E amount \in Amounts :
              req' = [req EXCEPT ![r] =
                        [rq EXCEPT !.pc = "pay", !.cap = queue.maxCapacity,
                                   !.amount = amount]]
       ELSE req' = [req EXCEPT ![r] = Finished(rq, out, <<>>)]
    /\ UNCHANGED <<queue, tickets, issued, queues, business, sockVars, estimate, released, etaUpdate>>

\* stripe.paymentIntents.create with confirm: the card is charged or refused
CheckoutPay(r, charged) ==
    /\ At(r, "checkout", "pay")
    /\ req' = [req EXCEPT ![r] =
                 IF charged THEN [@ EXCEPT !.pc = "cas", !.pay = "charged",
                                           !.charge = Cents(req[r].amount)]
                 ELSE Finished(@, PaymentFailed, <<>>)]
    /\ UNCHANGED <<queue, tickets, issued, queues, business, sockVars, estimate, released, etaUpdate>>

\* the conditional increment; with no match the payment is refunded (a
\* refund that fails is logged) and the request answers 400
CheckoutCas(r, refunded) ==
    /\ At(r, "checkout", "cas")
    /\ IF AdmitFilter(queue, req[r].cap)
       THEN /\ queue' = IncCounters(queue)
            /\ req' = [req EXCEPT ![r] = [@ EXCEPT !.pc = "create",
                                            !.num = queue'.currentTicketNumber]]
            /\ issued' = issued \cup {queue'.currentTicketNumber}
       ELSE /\ queue' = queue
            /\ req' = [req EXCEPT ![r] =
                         Finished([@ EXCEPT !.pay = IF refunded THEN "refunded"
                                                    ELSE "charged",
                                            !.refund = RefundAmount(req[r])],
                                  QueueFullRefunded, <<>>)]
            /\ issued' = issued
    /\ UNCHANGED <<tickets, queues, business, sockVars, estimate, released, etaUpdate>>

\* Ticket.create, the client link, Payment.create (status "completed") and
\* the response; the handler emits nothing
CheckoutPersist(r) ==
    /\ At(r, "checkout", "create")
    /\ tickets' = Append(tickets, NewTicket(req[r]))
    /\ req' = [req EXCEPT ![r] =
                 Finished([@ EXCEPT !.tid = Len(tickets) + 1, !.pay = "completed"],
                          "success", <<>>)]
    /\ UNCHANGED <<queue, issued, queues, business, sockVars, estimate, released, etaUpdate>>

NextEntry ==
    \/ \E r \in Slots, p \in Creators, bid \in BusinessIds, qid \in QueueIds :
          CreateTicketRequest(r, p, bid, qid)
    \/ \E r \in Slots : CreateTicketCas(r)
    \/ \E r \in Slots : CreateTicketPersist(r)
    \/ \E r \in Slots, p \in Creators, bid \in BusinessIds, qid \in QueueIds,
          card \in BOOLEAN : CheckoutRequest(r, p, bid, qid, card)
    \/ \E r \in Slots, charged \in BOOLEAN : CheckoutPay(r, charged)
    \/ \E r \in Slots, refunded \in BOOLEAN : CheckoutCas(r, refunded)
    \/ \E r \in Slots : CheckoutPersist(r)
    \/ \E r \in Slots : AdmitAnswer(r)

SpecEntry == InitEntry /\ [][NextEntry]_vars

\* ------------------------------------------- admissions on a store that fails
\* Ticket.create throws: the catch block answers 500; the counters that the
\* conditional update raised stay as they are
CreateTicketPersistFails(r) ==
    /\ At(r, "createTicket", "create")
    /\ req' = [req EXCEPT ![r] = Finished(@, "ServerError", <<>>)]
    /\ UNCHANGED <<queue, tickets, issued, queues, business, sockVars, estimate, released, etaUpdate>>

\* the same in card checkout, after the card was charged
CheckoutPersistFails(r) ==
    /\ At(r, "checkout", "create")
    /\ req' = [req EXCEPT ![r] = Finished(@, "ServerError", <<>>)]
    /\ UNCHANGED <<queue, tickets, issued, queues, business, sockVars, estimate, released, etaUpdate>>

\* SpecPersist: well-formed admissions through createTicket and card
\* checkout, each of whose Ticket.create may succeed or throw
NextPersist ==
    \/ \E r \in Slots, p \in Creators : CreateTicketRequest(r, p, "B1", TheQueue)
    \/ \E r \in Slots : CreateTicketCas(r)
    \/ \E r \in Slots : CreateTicketPersist(r)
    \/ \E r \in Slots : CreateTicketPersistFails(r)
    \/ \E r \in Slots, p \in Creators :
          CheckoutRequest(r, p, "B1", TheQueue, TRUE)
    \/ \E r \in Slots, charged \in BOOLEAN : CheckoutPay(r, charged)
    \/ \E r \in Slots, refunded \in BOOLEAN : CheckoutCas(r, refunded)
    \/ \E r \in Slots : CheckoutPersist(r)
    \/ \E r \in Slots : CheckoutPersistFails(r)
    \/ \E r \in Slots : AdmitAnswer(r)

SpecPersist == InitEntry /\ [][NextPersist]_vars

\* ------------------------------------- admissions against pause and close
\* SpecPause: createTicket and card checkout on the queue of the business
\* while the business pauses, resumes and closes the queue
RoomForTicket == Len(tickets) + Cardinality({r \in Slots : InFlight(r)}) < MaxTickets

NextPause ==
    \/ \E p \in Creators : CreateTicketCheck(p)
    \/ \E r \in Slots : CreateTicketCas(r)
    \/ \E r \in Slots : CreateTicketPersist(r)
    \/ \E r \in Slots, p \in Creators :
          RoomForTicket /\ CheckoutRequest(r, p, "B1", TheQueue, TRUE)
    \/ \E r \in Slots, charged \in BOOLEAN : CheckoutPay(r, charged)
    \/ \E r \in Slots, refunded \in BOOLEAN : CheckoutCas(r, refunded)
    \/ \E r \in Slots : CheckoutPersist(r)
    \/ PauseQueue
    \/ ResumeQueue
    \/ CloseQueueFind
    \/ \E r \in Slots : CloseQueueCancel(r)
    \/ \E r \in Slots : CloseQueueUpdate(r)
    \/ \E r \in Slots : Respond(r)

SpecPause == Init /\ [][NextPause]_vars

\* SpecRefund: the same, from any queue of the day: active or not, full or not
SpecRefund == InitEntry /\ [][NextPause]_vars

\* ------------------------------------------------ concurrent callNextTicket
\* SpecNext: tickets are admitted and the business asks for the next ticket,
\* several requests at a time; nothing else moves a ticket
NextNext ==
    \/ \E p \in Creators : CreateTicketCheck(p)
    \/ \E r \in Slots : CreateTicketCas(r)
    \/ \E r \in Slots : CreateTicketPersist(r)
    \/ \E p \in Staff : CallNextTicketQueue(p)
    \/ \E r \in Slots : CallNextTicketFind(r)
    \/ \E r \in Slots : CallNextTicketSave(r)
    \/ \E r \in Slots : Respond(r)

SpecNext == Init /\ [][NextNext]_vars

\* ------------------------------------------- ticket messages of the socket
\* The socket handlers callTicket, skipTicket, cancelTicket and completeTicket
\* take {ticketId, businessId} from the message of any connected client.
\* They are named here by the HTTP operation of the same transition
\* (skipTicket: "noShowTicket").
MessageOps == {"callTicket", "noShowTicket", "cancelTicket", "completeTicket"}

\* one status check for all four handlers: nothing leaves a terminal status
SocketRefusesTerminal(op, st) == st \in {Done, Cancelled, Missed}

\* the status check of each handler
SocketRefused(op, st) ==
    CASE op = "callTicket" -> st # Waiting
      [] op = "noShowTicket" -> st # Waiting
      [] op = "cancelTicket" -> st \in {Done, Cancelled, Missed}
      [] op = "completeTicket" -> st = Done

\* the status each handler saves
SocketStatus(op) ==
    CASE op = "callTicket" -> Called
      [] op = "noShowTicket" -> Missed
      [] op = "cancelTicket" -> Cancelled
      [] op = "completeTicket" -> Done

\* whether the handler goes on to $inc currentCount by -1: skipTicket always,
\* cancelTicket when the ticket it loaded was waiting
SocketReleases(op, st) ==
    op = "noShowTicket" \/ (op = "cancelTicket" /\ st = Waiting)

\* the one event each handler emits to the business room
SocketEvent(op) ==
    CASE op = "callTicket" -> "ticketCalled"
      [] op = "noShowTicket" -> "ticketSkipped"
      [] op = "cancelTicket" -> "ticketCancelled"
      [] op = "completeTicket" -> "ticketCompleted"

\* Ticket.findById and the status check; the sender is not looked at
SocketOutcome(op, ts, t) ==
    Checks(ts, t, FALSE, SocketRefused(op, StatusOf(ts, t)))

\* the message op {ticketId: t, businessId: b} of client p, up to its save
SocketTicketMessage(op, p, t, b) ==
    /\ SocketOutcome(op, tickets, t) = "proceed"
    /\ Start([NewReq(op, "socket", p) EXCEPT
                 !.pc = "socketSave", !.tid = t, !.bid = b,
                 !.st = IF op = "cancelTicket" THEN tickets[t].status ELSE "none"])
    /\ UNCHANGED <<queue, tickets, issued, queues, business, sockVars, estimate, released, etaUpdate>>

SocketTicketSave(r) ==
    /\ Quiet
    /\ req[r].pc = "socketSave"
    /\ tickets' = SaveStatus(tickets, req[r].tid, SocketStatus(req[r].op))
    /\ req' = [req EXCEPT ![r] =
                 IF SocketReleases(@.op, @.st) THEN [@ EXCEPT !.pc = "socketDec"]
                 ELSE Finished(@, "success", <<Ev(SocketEvent(@.op), @.tid)>>)]
    /\ UNCHANGED <<queue, issued, queues, business, sockVars, estimate, released, etaUpdate>>

SocketTicketDec(r) ==
    /\ Quiet
    /\ req[r].pc = "socketDec"
    /\ queue' = DecCount(queue)
    /\ released' = [released EXCEPT ![req[r].tid] = @ + 1]
    /\ req' = [req EXCEPT ![r] =
                 Finished(@, "success", <<Ev(SocketEvent(@.op), @.tid)>>)]
    /\ UNCHANGED <<tickets, issued, queues, business, sockVars, estimate, etaUpdate>>

\* the room the ticket events of a finished request went to: the HTTP
\* handlers pass ticket.businessId to the emit helpers, the socket handlers
\* use the businessId of the message
EmitRoom(rq) == IF rq.via = "socket" THEN rq.bid ELSE OwningBusiness

\* SpecMessages: the four transitions over HTTP, by the business and by the
\* users, and as socket messages of a client for any business room
HttpClients == {"B1", "U1", "U2"}
SocketClients == {"B1", "U2"}

NextMessages ==
    \/ \E p \in Creators : CreateTicketCheck(p)
    \/ \E r \in Slots : CreateTicketCas(r)
    \/ \E r \in Slots : CreateTicketPersist(r)
    \/ \E p \in HttpClients, t \in TicketIds : CallTicketFind(p, t, "http")
    \/ \E r \in Slots : CallTicketSave(r)
    \/ \E p \in HttpClients, t \in TicketIds : NoShowTicketFind(p, t, "http")
    \/ \E r \in Slots : NoShowTicketSave(r)
    \/ \E r \in Slots : NoShowTicketDec(r)
    \/ \E p \in HttpClients, t \in TicketIds : CancelTicketFind(p, t, "http")
    \/ \E r \in Slots : CancelTicketSave(r)
    \/ \E r \in Slots : CancelTicketDec(r)
    \/ \E p \in HttpClients, t \in TicketIds : CompleteTicketFind(p, t, "http")
    \/ \E r \in Slots : CompleteTicketSave(r)
    \/ \E op \in MessageOps, p \in SocketClients, t \in TicketIds, b \in Rooms :
          SocketTicketMessage(op, p, t, b)
    \/ \E r \in Slots : SocketTicketSave(r)
    \/ \E r \in Slots : SocketTicketDec(r)
    \/ \E r \in Slots : Respond(r)

SpecMessages == Init /\ [][NextMessages]_vars

\* ------------------------------------------------------------ updateQueueETAs
\* completeTicket calls updateQueueETAs(queueId) without awaiting it and
\* answers; the run goes on by itself, one step per await.

\* .sort({ticketNumber: 1}) of the tickets ids
RECURSIVE ByTicketNumber(_, _)
ByTicketNumber(ts, ids) ==
    IF ids = {} THEN <<>>
    ELSE LET t == CHOOSE t \in ids :
                    \A u \in ids : \/ ts[t].num < ts[u].num
                                   \/ ts[t].num = ts[u].num /\ t <= u
         IN <<[tid |-> t, doc |-> ts[t]]>> \o ByTicketNumber(ts, ids \ {t})

\* the loaded document written back whole, as ticket.save() of it would
SaveLoadedTicket(ts, t, doc) == [ts EXCEPT ![t] = doc]

\* Ticket.findByIdAndUpdate(id, {estimatedTime}): it sets none of the fields
\* of the ticket that are kept here, whatever the document was when loaded
UpdateEstimatedTime(ts, t, doc) == ts

\* Math.round((i + 1) * (baseETA.estimatedMinutes / (queue.currentCount || 1)))
\* for the ticket at place i of the list, places counted from 1
PositionETA(i, base, count) == Round(i * base, IF count = 0 THEN 1 ELSE count)

\* the call made by completeTicket before it answers
UpdateQueueETAsStart(r) ==
    /\ req[r].op = "completeTicket" /\ req[r].via = "http"
    /\ req[r].pc = "done" /\ req[r].res = "success"
    /\ etaUpdate.pc = "idle"
    /\ req' = Remove(req, r)
    /\ etaUpdate' = [etaUpdate EXCEPT !.pc = "queue"]
    /\ UNCHANGED <<queue, tickets, issued, queues, business, sockVars, estimate, released>>

\* Queue.findById(queueId).populate("businessId")
UpdateQueueETAsQueue ==
    /\ Quiet
    /\ etaUpdate.pc = "queue"
    /\ etaUpdate' = [etaUpdate EXCEPT !.pc = "tickets", !.count = queue.currentCount]
    /\ UNCHANGED <<queue, tickets, req, issued, queues, business, sockVars, estimate, released>>

\* Ticket.find({queueId, status: "waiting"}).sort({ticketNumber: 1})
UpdateQueueETAsFind ==
    /\ Quiet
    /\ etaUpdate.pc = "tickets"
    /\ etaUpdate' = [etaUpdate EXCEPT
                        !.pc = "eta",
                        !.todo = ByTicketNumber(tickets, WaitingIds(tickets))]
    /\ UNCHANGED <<queue, tickets, req, issued, queues, business, sockVars, estimate, released>>

\* calculateETA(businessId, queueId)
UpdateQueueETAsBase ==
    /\ Quiet
    /\ etaUpdate.pc = "eta"
    /\ \E fails \in BOOLEAN :
         etaUpdate' = [etaUpdate EXCEPT
                          !.pc = "update", !.i = 1,
                          !.base = CalculateETA(queue, fails).minutes]
    /\ UNCHANGED <<queue, tickets, req, issued, queues, business, sockVars, estimate, released>>

\* one turn of the loop, or its end
UpdateQueueETAsWrite ==
    /\ Quiet
    /\ etaUpdate.pc = "update"
    /\ IF etaUpdate.i > Len(etaUpdate.todo)
       THEN /\ etaUpdate' = [NoUpdate EXCEPT !.times = etaUpdate.times]
            /\ tickets' = tickets
       ELSE LET it == etaUpdate.todo[etaUpdate.i] IN
            /\ tickets' = UpdateEstimatedTime(tickets, it.tid, it.doc)
            /\ etaUpdate' = [etaUpdate EXCEPT
                                !.i = @ + 1,
                                !.times[it.tid] =
                                    PositionETA(etaUpdate.i, etaUpdate.base,
                                                etaUpdate.count)]
    /\ UNCHANGED <<queue, req, issued, queues, business, sockVars, estimate, released>>

\* SpecReestimate: admissions, calls, cancels and completions over HTTP, and
\* the run of updateQueueETAs that a completion starts
NextReestimate ==
    \/ \E p \in Creators : CreateTicketCheck(p)
    \/ \E r \in Slots : CreateTicketCas(r)
    \/ \E r \in Slots : CreateTicketPersist(r)
    \/ \E p \in Staff, t \in TicketIds : CallTicketFind(p, t, "http")
    \/ \E r \in Slots : CallTicketSave(r)
    \/ \E p \in Staff, t \in TicketIds : CancelTicketFind(p, t, "http")
    \/ \E r \in Slots : CancelTicketSave(r)
    \/ \E r \in Slots : CancelTicketDec(r)
    \/ \E p \in Staff, t \in TicketIds : CompleteTicketFind(p, t, "http")
    \/ \E r \in Slots : CompleteTicketSave(r)
    \/ \E r \in Slots : UpdateQueueETAsStart(r)
    \/ UpdateQueueETAsQueue
    \/ UpdateQueueETAsFind
    \/ UpdateQueueETAsBase
    \/ UpdateQueueETAsWrite
    \/ \E r \in Slots : Respond(r)

SpecReestimate == Init /\ [][NextReestimate]_vars

\* -------------------------------------------------------------- createQueue
\* SpecQueues: createQueue requests for the businesses and a few dates,
\* against a Queue collection that holds today's queue of the owning business
DateInputs == {"2025-01-01", "2025-01-01T00:00:00.000Z", "2025-01-02"}

\* new Date(date), in days: a date without a time is midnight UTC
ParseDate(str) ==
    CASE str \in {"2025-01-01", "2025-01-01T00:00:00.000Z"} -> 1
      [] OTHER -> 2

\* Queue.findOne({ businessId, date })
QueueExists(qs, b, d) ==
    \E i \in DOMAIN qs : qs[i].businessId = b /\ qs[i].date = d

InitQueues ==
    /\ queue = InitQueue(MaxCap)
    /\ tickets = <<>>
    /\ req = [r \in Slots |-> IdleReq]
    /\ issued = {}
    /\ queues = <<QueueDoc(OwningBusiness, Today, MaxCap)>>
    /\ business = "active"
    /\ NoSockets
    /\ released = NoneReleased
    /\ etaUpdate = NoUpdate
    /\ NoEstimate

\* Business.findById, Queue.findOne and the answer when a queue exists
CreateQueueFind(r, b, str, c) ==
    LET rq == [NewReq("createQueue", "http", b) EXCEPT
                  !.bid = b, !.date = ParseDate(str), !.cap = c] IN
    /\ Quiet
    /\ Free(r)
    /\ \A s \in Slots : s < r => ~Free(s)
    /\ req' = [req EXCEPT ![r] =
                 IF QueueExists(queues, b, rq.date)
                 THEN Finished(rq, "Conflict", <<>>)
                 ELSE [rq EXCEPT !.pc = "create"]]
    /\ UNCHANGED <<queue, tickets, issued, queues, business, sockVars, estimate, released, etaUpdate>>

\* Queue.create, the queue event and the 201 response
CreateQueueCreate(r) ==
    /\ At(r, "createQueue", "create")
    /\ queues' = Append(queues, QueueDoc(req[r].bid, req[r].date, req[r].cap))
    /\ req' = [req EXCEPT ![r] = Finished(@, "success", <<QueueEv>>)]
    /\ UNCHANGED <<queue, tickets, issued, business, sockVars, estimate, released, etaUpdate>>

\* the response is sent; the slot keeps it
CreateQueueAnswer(r) ==
    /\ req[r].pc = "done"
    /\ req' = [req EXCEPT ![r] = [@ EXCEPT !.pc = "answered"]]
    /\ UNCHANGED <<queue, tickets, issued, queues, business, sockVars, estimate, released, etaUpdate>>

NextQueues ==
    \/ \E r \in Slots, b \in {"B1", "B2"}, str \in DateInputs, c \in 0..MaxCap :
          CreateQueueFind(r, b, str, c)
    \/ \E r \in Slots : CreateQueueCreate(r)
    \/ \E r \in Slots : CreateQueueAnswer(r)

SpecQueues == InitQueues /\ [][NextQueues]_vars

\* ------------------------------------------------------------------- claims
\* request r took the step of handler op that leads from pc `from` to pc `to`
Took(r, op, from, to) ==
    /\ req[r].op = op /\ req[r].pc = from
    /\ req'[r].op = op /\ req'[r].pc = to
    /\ \A s \in DOMAIN req : s # r => req'[s] = req[s]

Min(a, b) == IF a <= b THEN a ELSE b

Quiescent == \A r \in DOMAIN req : req[r].pc \in {"idle", "answered"}

AdmitAnswered == {r \in DOMAIN req : req[r].pc = "answered"}
AdmitSucceeded == {r \in AdmitAnswered : req[r].res = "success"}

\* C1: of N createTicket requests on an active queue that starts empty with
\* maxCapacity C, whatever their interleaving, exactly min(N, C) succeed, and
\* currentCount never exceeds C.
C1_AdmitsExactlyMin ==
    /\ queue.currentCount <= queue.maxCapacity
    /\ Quiescent =>
         /\ Cardinality(AdmitSucceeded)
              = Min(Cardinality(AdmitAnswered), queue.maxCapacity)
         /\ queue.currentCount = Cardinality(AdmitSucceeded)
         /\ Len(tickets) = Cardinality(AdmitSucceeded)

\* more requests than places, all answered, one of them refused by the
\* conditional update after it had passed the capacity check
C1_Witness ==
    /\ \A r \in DOMAIN req : req[r].pc = "answered"
    /\ Cardinality(DOMAIN req) > queue.maxCapacity
    /\ \E r \in DOMAIN req : req[r].res = "Conflict" /\ req[r].cap > 0

ActiveTickets == {t \in TicketIds : tickets[t].status \in SlotStatuses}

\* C4: with no request in flight, currentCount is the number of tickets that
\* are waiting, called or in progress.
C4_CountMatchesActive ==
    Quiescent => queue.currentCount = Cardinality(ActiveTickets)

\* C5: 0 <= currentCount <= maxCapacity in every state.
C5_CountWithinCapacity ==
    /\ 0 <= queue.currentCount
    /\ queue.currentCount <= queue.maxCapacity

\* C6: whatever transition the owning business asks for on a ticket that is
\* done, cancelled or missed, the checks of the handler answer Conflict (and
\* the handler then writes nothing).
C6_TerminalRefused ==
    \A t \in TicketIds :
        tickets[t].status \in TerminalStatuses =>
            /\ CallOutcome(tickets, OwningBusiness, t, "http") = "Conflict"
            /\ ServeOutcome(tickets, OwningBusiness, t) = "Conflict"
            /\ StartOutcome(tickets, OwningBusiness, t) = "Conflict"
            /\ CompleteOutcome(tickets, OwningBusiness, t, "http") = "Conflict"
            /\ CancelOutcome(tickets, OwningBusiness, t, "http") = "Conflict"
            /\ NoShowOutcome(tickets, OwningBusiness, t, "http") = "Conflict"

AllowedEdges ==
    {<<Waiting, Called>>, <<Waiting, InProgress>>, <<Waiting, Cancelled>>,
     <<Waiting, Missed>>, <<Waiting, Done>>,
     <<Called, InProgress>>, <<Called, Done>>, <<Called, Cancelled>>,
     <<InProgress, Done>>, <<InProgress, Cancelled>>}

\* C7: the status of a ticket changes only along the allowed edges.
C7_OnlyAllowedEdges ==
    [][\A t \in TicketIds :
         tickets'[t].status # tickets[t].status =>
             <<tickets[t].status, tickets'[t].status>> \in AllowedEdges]_vars

\* the callNextTicket requests past their checks on the queue
CallNextStarted(f) ==
    Cardinality({s \in DOMAIN f : f[s].op = "callNextTicket" /\ f[s].pc = "find"})

CancelledEvents(ev) ==
    Cardinality({i \in DOMAIN ev : ev[i].type = "ticketCancelled"})

\* C9: when closeQueue answers, it has emitted one queue event and as many
\* ticketCancelled events as its update cancelled tickets, and currentCount
\* is zero.
C9_CloseEventsMatchCancelled ==
    \A r \in DOMAIN req :
        (req[r].op = "closeQueue" /\ req[r].pc = "done") =>
            /\ CancelledEvents(req[r].ev) = req[r].nmod
            /\ Cardinality({i \in DOMAIN req[r].ev : req[r].ev[i] = QueueEv}) = 1
            /\ queue.currentCount = 0

\* C10: a closed queue has currentCount = 0 and currentTicketNumber = 0.
C10_ClosedMeansZero ==
    queue.status = "closed" =>
        /\ queue.currentCount = 0
        /\ queue.currentTicketNumber = 0

\* the status check of a transition handler, by handler name
SaveRefused(op, st) ==
    CASE op = "cancelTicket" -> CancelRefused(st)
      [] op = "noShowTicket" -> NoShowRefused(st)
      [] op = "callTicket" -> CallRefused(st)
      [] op \in {"serveTicket", "startTicket"} -> ServeRefused(st)
      [] op = "completeTicket" -> CompleteRefused(st)
      [] OTHER -> FALSE

TransitionOps == {"cancelTicket", "noShowTicket", "callTicket", "serveTicket",
                  "startTicket", "completeTicket"}

\* C11: of the transition requests that run concurrently on one ticket, the
\* one that saves after another has changed the ticket does not succeed: a
\* request writes its new status only while the status the ticket has at
\* that moment is one its own check accepts (otherwise it answers Conflict).
C11_LoserGetsConflict ==
    [][\A r \in DOMAIN req :
         (/\ req[r].op \in TransitionOps
          /\ req[r].pc = "save"
          /\ req'[r].op = req[r].op
          /\ req'[r].pc # "save"
          /\ \A s \in DOMAIN req : s # r => req'[s] = req[s])
         => ~SaveRefused(req[r].op, tickets[req[r].tid].status)]_vars

\* request r has just been received by createTicket
Received(r) ==
    /\ req[r].pc = "idle"
    /\ req'[r].op = "createTicket"
    /\ req'[r].pc # "idle"

\* the request has the two body fields and names a business and a queue that
\* exist
WellAddressed(rq) ==
    rq.bid # "none" /\ rq.qid = TheQueue /\ rq.biz # "absent"

\* C12: createTicket checks, in this order, that the business is active, that
\* the queue belongs to the business given, that the queue is active and that
\* currentCount < maxCapacity; it answers with the error of the first check
\* that fails, the four errors are different messages, and it goes on to the
\* conditional update only when all four hold.
C12_FirstFailureReported ==
    [][\A r \in DOMAIN req :
         (Received(r) /\ WellAddressed(req'[r])) =>
            LET rq == req'[r]
                open == rq.biz = "active"
                owns == queue.businessId = rq.bid
                accepting == queue.status = "active"
                room == queue.currentCount < queue.maxCapacity
                out == IF rq.pc = "done" THEN rq.res ELSE "proceed" IN
            /\ ~open => out = BusinessClosed
            /\ (open /\ ~owns) => out = QueueNotOfBusiness
            /\ (open /\ owns /\ ~accepting) => out = QueueNotAccepting
            /\ (open /\ owns /\ accepting /\ ~room) => out = QueueFull
            /\ (open /\ owns /\ accepting /\ room) => rq.pc = "cas"
            /\ Cardinality({BusinessClosed, QueueNotOfBusiness,
                            QueueNotAccepting, QueueFull, "proceed"}) = 5
            /\ queue' = queue /\ tickets' = tickets]_vars

\* a request refused because the queue is paused or closed, on a queue that
\* is also full
C12_Witness ==
    \E r \in DOMAIN req :
        /\ req[r].op = "createTicket" /\ req[r].pc = "done"
        /\ req[r].res = QueueNotAccepting
        /\ queue.currentCount >= queue.maxCapacity

AdmissionOps == {"createTicket", "checkout"}

\* request r makes its conditional update in this step
AttemptsUpdate(r) ==
    /\ req[r].op \in AdmissionOps
    /\ req[r].pc = "cas"
    /\ req'[r] # req[r]

\* no queue record matches the filter of request r: the queue is not active,
\* or its currentCount has reached the maxCapacity the request read
NoMatch(r) ==
    queue.status # "active" \/ queue.currentCount >= req[r].cap

\* C13: an admission whose conditional update matches no queue record
\* answers with an error, creates no ticket and leaves currentCount and
\* currentTicketNumber as they were; it makes the update once only, so never
\* more than twice: a request that has made it does not come back to it.
C13_NoMatchFailsOnce ==
    [][\A r \in DOMAIN req :
         /\ (AttemptsUpdate(r) /\ NoMatch(r)) =>
               /\ req'[r].pc = "done"
               /\ req'[r].res \in {"Conflict", QueueFullRefunded}
               /\ queue' = queue
               /\ tickets' = tickets
         /\ (req[r].op \in AdmissionOps /\ req[r].pc \in {"create", "done", "answered"})
               => req'[r].pc # "cas"]_vars

\* one admission refused at its conditional update by a queue that another
\* admission has just filled, the queue still active
C13_Witness ==
    \E r \in DOMAIN req :
        /\ req[r].op \in AdmissionOps /\ req[r].pc = "done"
        /\ req[r].res \in {"Conflict", QueueFullRefunded}
        /\ queue.status = "active"
        /\ queue.currentCount = queue.maxCapacity
        /\ Len(tickets) <= queue.currentCount

\* request r, an admission, is at pc `from` and takes a step to pc `to`
Admits(r, from, to) ==
    /\ req[r].op \in AdmissionOps
    /\ req[r].pc = from
    /\ req'[r].pc = to

\* C14: a successful admission creates exactly one ticket: its conditional
\* update raises currentTicketNumber by one and the admission keeps the new
\* value; the ticket it then writes is the only ticket it adds, is waiting
\* and carries that value, whatever other admissions did in between; no
\* other step of an admission adds or changes a ticket.
C14_OneWaitingTicketWithOwnNumber ==
    [][\A r \in DOMAIN req :
         /\ Admits(r, "cas", "create") =>
               /\ queue'.currentTicketNumber = queue.currentTicketNumber + 1
               /\ req'[r].num = queue'.currentTicketNumber
               /\ tickets' = tickets
         /\ Admits(r, "create", "done") =>
               /\ req'[r].res = "success"
               /\ Len(tickets') = Len(tickets) + 1
               /\ SubSeq(tickets', 1, Len(tickets)) = tickets
               /\ tickets'[Len(tickets')].status = Waiting
               /\ tickets'[Len(tickets')].num = req[r].num
         /\ (req'[r] # req[r] /\ req'[r].op \in AdmissionOps
               /\ ~Admits(r, "create", "done")) => tickets' = tickets]_vars

\* an admission has answered success; its ticket is waiting under the number
\* the admission was given, and the counter has moved on since
C14_Witness ==
    \E r \in DOMAIN req :
        /\ req[r].op \in AdmissionOps /\ req[r].pc = "done"
        /\ req[r].res = "success"
        /\ tickets[req[r].tid].status = Waiting
        /\ tickets[req[r].tid].num = req[r].num
        /\ queue.currentTicketNumber > req[r].num

\* how many times event e occurs among the events ev
Occurrences(ev, e) == Cardinality({i \in DOMAIN ev : ev[i] = e})

\* C15: every admission that has succeeded, through createTicket or through
\* card checkout, has emitted to the room of the business one ticketCreated
\* event for its ticket and one queueUpdated event.
C15_AdmissionEmitsBothEvents ==
    \A r \in DOMAIN req :
        (/\ req[r].op \in AdmissionOps
         /\ req[r].pc \in {"done", "answered"}
         /\ req[r].res = "success") =>
            /\ Occurrences(req[r].ev, Ev("ticketCreated", req[r].tid)) = 1
            /\ Occurrences(req[r].ev, QueueEv) = 1

\* C16: a createTicket request whose ETA calculation failed has answered
\* success, with the default estimate, and its ticket exists and is the one
\* it was numbered for; no createTicket request past its conditional update
\* answers anything but success.
C16_EtaFailureStillAdmits ==
    \A r \in DOMAIN req :
        (req[r].op = "createTicket" /\ req[r].pc \in {"done", "answered"}
           /\ req[r].num > 0) =>
            /\ req[r].res = "success"
            /\ req[r].tid \in TicketIds
            /\ tickets[req[r].tid].num = req[r].num
            /\ req[r].eta.method = "default_fallback" =>
                   req[r].eta.minutes = DefaultEstimate

\* an admission has succeeded on the fallback estimate while the queue held
\* two tickets, for which the calculation would have answered otherwise
C16_Witness ==
    \E r \in DOMAIN req :
        /\ req[r].op = "createTicket" /\ req[r].pc = "done"
        /\ req[r].res = "success"
        /\ req[r].eta = [minutes |-> DefaultEstimate, method |-> "default_fallback"]
        /\ queue.currentCount = 2
        /\ tickets[req[r].tid].status = Waiting

\* C17: a no-show on a waiting ticket, asked over HTTP (noShowTicket) or over
\* the socket (skipTicket), saves the ticket as missed, then lowers
\* currentCount by one, and has by then emitted exactly one ticketSkipped
\* event for the ticket and exactly one queueUpdated event.
C17_NoShowLowersCountAndEmits ==
    [][\A r \in DOMAIN req :
         /\ Took(r, "noShowTicket", "save", "dec") =>
               tickets' = SaveStatus(tickets, req[r].tid, Missed)
         /\ Took(r, "noShowTicket", "dec", "done") =>
               /\ queue'.currentCount = queue.currentCount - 1
               /\ Occurrences(req'[r].ev, Ev("ticketSkipped", req[r].tid)) = 1
               /\ Occurrences(req'[r].ev, QueueEv) = 1]_vars

\* C18: completing a ticket that is waiting, called or in progress, over HTTP
\* or over the socket, saves it as done and lowers the currentCount of its
\* queue by one before the request answers.
C18_CompleteReleasesSlot ==
    [][\A r \in DOMAIN req :
         (Took(r, "completeTicket", "save", "done")
            /\ tickets[req[r].tid].status \in SlotStatuses) =>
               /\ tickets' = SaveStatus(tickets, req[r].tid, Done)
               /\ queue'.currentCount = queue.currentCount - 1]_vars

C20_OneQueuePerBusinessAndDate ==
    \A i, j \in DOMAIN queues :
        (queues[i].businessId = queues[j].businessId
           /\ queues[i].date = queues[j].date) => i = j

\* C21: in every state, the queue of each ticket that is waiting, called or
\* in progress still exists.
C21_QueueOfActiveTicketExists ==
    \A t \in TicketIds :
        tickets[t].status \in SlotStatuses => queue.status # Deleted

\* C22: a ticket that exists keeps existing: after every step each ticket of
\* the collection is still in it.
C22_TicketsAreNeverRemoved ==
    [][\A t \in TicketIds :
         \E u \in 1..Len(tickets') : tickets'[u].num = tickets[t].num]_vars

\* C23: a ticket goes from waiting to called only by a request of a principal
\* that is authorised for the business that owns the ticket, on the HTTP
\* callTicket, the callNextTicket and the socket callTicket paths alike.
CallsTicket(r) ==
    /\ Took(r, "callTicket", "save", "done")
       \/ Took(r, "callNextTicket", "save", "done")
    /\ tickets[req[r].tid].status = Waiting
    /\ tickets'[req[r].tid].status = Called

C23_OnlyAuthorisedCalls ==
    [][\A r \in Slots : CallsTicket(r) => req[r].user = OwningBusiness]_vars

\* C24: every emit has reached exactly the sockets that were in its room when
\* it was made; a socket that was not in the room then never has it, whatever
\* it joins afterwards.  (The emits of the helpers, io.to(room).emit; an emit
\* through socket.to leaves its sender out.)
C24_EmitReachesMembersAtEmitTime ==
    \A i \in 1..Len(emitted), c \in Conns :
        /\ i \in inbox[c] => c \in emitted[i].members
        /\ emitted[i].from = "io" /\ c \in emitted[i].members => i \in inbox[c]

\* a socket has joined the room of an emit that it missed
C24_Witness ==
    \E i \in 1..Len(emitted), c \in Conns :
        /\ emitted[i].from = "io"
        /\ c \notin emitted[i].members
        /\ emitted[i].room \in rooms[c]
        /\ i \notin inbox[c]
        /\ \E d \in Conns : i \in inbox[d]

\* C25: a socket gets the events of the room of a business only while it is
\* in that room; it comes into the room by a joinBusiness for that business
\* only, and it is out of the room after its leaveBusiness for that business
\* and out of every room after its disconnect.
Gets(c, b) == \E i \in inbox'[c] \ inbox[c] : emitted'[i].room = b

C25_EventsOnlyBetweenJoinAndLeave ==
    [][\A c \in Conns, b \in Rooms :
         /\ Gets(c, b) => sockets'[c] = "live" /\ b \in rooms'[c]
         /\ b \in rooms'[c] /\ b \notin rooms[c]
               => last' = Handled(c, "joinBusiness", b, "joinedBusiness")
         /\ last' = Handled(c, "leaveBusiness", b, "none") => b \notin rooms'[c]
         /\ sockets'[c] = "gone" => rooms'[c] = {}]_vars

\* a socket that got an event of a room, left, and has not got the next one
C25_Witness ==
    \E c \in Conns, i \in 1..Len(emitted), j \in 1..Len(emitted) :
        /\ i < j /\ emitted[i].room = emitted[j].room
        /\ emitted[j].from = "io" /\ emitted[j].members # {}
        /\ i \in inbox[c] /\ j \notin inbox[c]
        /\ sockets[c] = "live"

\* C26: connectedUsers has an entry for a socket exactly when the socket is
\* live and in the room of some business, and the business of the entry is
\* one whose room the socket is in.
C26_RegistryMirrorsMembership ==
    \A c \in Conns :
        /\ connectedUsers[c] # NoEntry <=> sockets[c] = "live" /\ rooms[c] # {}
        /\ connectedUsers[c] # NoEntry => connectedUsers[c] \in rooms[c]

\* C27: after a joinClinic message for a business the sending socket is in the
\* room of that business, as after a joinBusiness message for it.
C27_JoinClinicJoinsTheRoom ==
    [][\A c \in Conns, b \in Rooms :
         last' = Handled(c, "joinClinic", b, "joinBusiness") /\ last' # last
            => b \in rooms'[c]]_vars

\* C28: with no done ticket in the history of the business, calculateETA
\* returns the default minutes, confidence low and method default, and throws
\* nothing.
Estimated == estimate.out # NoResult
ZeroHistory == Estimated /\ estimate.h.n30 = 0

C28_ZeroHistoryGivesDefault ==
    ZeroHistory =>
        /\ estimate.out.minutes = DefaultEstimate
        /\ estimate.out.confidence = "low"
        /\ estimate.out.method = "default"

\* C28, as the code has it: with no done ticket the base service time is the
\* default and the confidence is low; the minutes are the default when the
\* queue is not found or a store call fails (then with method
\* default_fallback), and otherwise the tickets counted by the queue times the
\* default under the multipliers of the call, with method default.
C28_ZeroHistoryUsesDefaultBase ==
    ZeroHistory =>
        LET h == estimate.h
            out == estimate.out
            m == ServiceMultiplier(h.stype) * PeakMultiplier(h.hour)
                   * WeekendMultiplier(h.weekend)
        IN /\ out.confidence = "low"
           /\ out.base = DefaultEstimate
           /\ out.method = IF h.fails THEN "default_fallback" ELSE "default"
           /\ out.minutes = IF h.fails \/ ~h.found THEN DefaultEstimate
                            ELSE (2 * h.count * DefaultEstimate * m + 1000)
                                    \div 2000

\* a follow-up visit with one ticket in the queue and no history: 11 minutes
C28_Witness ==
    /\ ZeroHistory
    /\ estimate.h.found /\ ~estimate.h.fails
    /\ estimate.h.count = 1 /\ estimate.h.stype = "followup"
    /\ estimate.out.minutes = 11

\* C29: a calculation that reaches the choice of its base time makes it from
\* the two counts alone: fewer than ten done tickets in thirty days give the
\* default and confidence low; ten or more with five or more of them in the
\* hours around now give the mean of those and confidence high; ten or more
\* with fewer than five around now give the thirty-day mean and confidence
\* medium.
Calculated == Estimated /\ estimate.h.found /\ ~estimate.h.fails

C30_OneReleasePerTicket ==
    \A t \in TicketIds : released[t] <= 1

\* C31: with no request in flight, every ticket number that an admission took
\* by raising the counters is the number of a ticket that exists, also when
\* the creation of the ticket failed after the counters were raised.
C31_EveryIssuedNumberHasItsTicket ==
    Quiescent =>
        \A n \in issued : \E t \in TicketIds : tickets[t].num = n

\* C32: the counters of the queue rise only in a step that finds the queue
\* active and leaves it active: no admission raises them on a paused or a
\* closed queue, however createTicket and card checkout are interleaved with
\* pauseQueue and closeQueue.
C32_NoIncrementUnlessActive ==
    [][(queue'.currentCount > queue.currentCount
          \/ queue'.currentTicketNumber > queue.currentTicketNumber)
         => queue.status = "active" /\ queue'.status = "active"]_vars

\* an admission that passed its checks is refused by its conditional update
\* on a queue that was paused or closed in between and has room
C32_Witness ==
    \E r \in Slots :
        /\ req[r].op \in AdmissionOps /\ req[r].pc = "done"
        /\ req[r].res \in {"Conflict", QueueFullRefunded}
        /\ queue.status \in {"paused", "closed"}
        /\ queue.currentCount < queue.maxCapacity

\* C33: while the queue is closed, after closeQueue has done its work, no
\* ticket of the queue is waiting, whatever admission or status change was
\* running during the close.
C33_ClosedQueueHasNoWaitingTicket ==
    queue.status = "closed"
        => \A t \in TicketIds : tickets[t].status # Waiting

\* C34: a ticket comes to be in progress only by a save that sets startedAt
\* as well, through serveTicket and through startTicket alike, so that every
\* ticket in progress has its startedAt.
StartsService(r) ==
    /\ Took(r, "serveTicket", "save", "done")
       \/ Took(r, "startTicket", "save", "done")
    /\ tickets'[req[r].tid].status = InProgress

C34_InProgressHasStartedAt ==
    [][\A r \in Slots : StartsService(r) => req'[r].stamp = "startedAt"]_vars

\* C35: of two concurrent callNextTicket requests on a queue with two waiting
\* tickets each calls a ticket of its own: the save of a callNextTicket
\* request, which emits ticketCalled for its ticket, never meets a ticket
\* that another request has already moved to called.
CallsNext(r) ==
    /\ Took(r, "callNextTicket", "save", "done")
    /\ Len(tickets) >= 2

C35_NoTicketCalledTwice ==
    [][\A r \in Slots : CallsNext(r) => tickets[req[r].tid].status = Waiting]_vars

\* C36: every ticket event goes to the room of the business that owns the
\* ticket and to no other room, whether an HTTP handler or a socket handler
\* emitted it: a request that finished with ticket events emitted them to the
\* room of the owning business.
TicketEvents == {"ticketCalled", "ticketSkipped", "ticketCancelled",
                 "ticketCompleted", "ticketUpdated"}

EmittedTicketEvent(rq) ==
    /\ rq.pc = "done"
    /\ \E i \in DOMAIN rq.ev : rq.ev[i].type \in TicketEvents

C36_TicketEventsToOwningRoom ==
    \A r \in Slots : EmittedTicketEvent(req[r]) => EmitRoom(req[r]) = OwningBusiness

\* C37: for each of the four transitions, and whatever the status of the
\* ticket, the socket handler and the HTTP operation refuse the same
\* statuses (the HTTP request being one of the owning business), save the
\* same status, and lower currentCount by one in the same cases: skip and
\* no-show always, cancel when the ticket that was loaded was waiting, call
\* and complete never.
HttpOutcome(op, ts, t) ==
    CASE op = "callTicket" -> CallOutcome(ts, OwningBusiness, t, "http")
      [] op = "noShowTicket" -> NoShowOutcome(ts, OwningBusiness, t, "http")
      [] op = "cancelTicket" -> CancelOutcome(ts, OwningBusiness, t, "http")
      [] op = "completeTicket" -> CompleteOutcome(ts, OwningBusiness, t, "http")

SameStatusGuard ==
    \A op \in MessageOps, t \in TicketIds :
        SocketOutcome(op, tickets, t) = HttpOutcome(op, tickets, t)

TransitionStatus(op) ==
    CASE op = "callTicket" -> Called
      [] op = "noShowTicket" -> Missed
      [] op = "cancelTicket" -> Cancelled
      [] op = "completeTicket" -> Done

TransitionReleases(op, st) ==
    op = "noShowTicket" \/ (op = "cancelTicket" /\ st = Waiting)

\* request r, of either transport, takes the step it is at
Steps(r, pcs) ==
    /\ req[r].op \in MessageOps
    /\ req[r].pc \in pcs
    /\ req'[r].pc # req[r].pc
    /\ req'[r].op = req[r].op /\ req'[r].tid = req[r].tid
    /\ \A s \in DOMAIN req : s # r => req'[s] = req[s]

SameTransition(r) ==
    /\ Steps(r, {"save", "socketSave"}) =>
          /\ tickets'[req[r].tid].status = TransitionStatus(req[r].op)
          /\ queue' = queue
          /\ req'[r].pc \in {"dec", "socketDec"}
                <=> TransitionReleases(req[r].op, req[r].st)
    /\ Steps(r, {"dec", "socketDec"}) =>
          /\ queue'.currentCount = queue.currentCount - 1
          /\ tickets' = tickets
          /\ req'[r].pc = "done"

CancelledBy(rq) ==
    /\ rq.op = "cancelTicket" /\ rq.pc = "done" /\ rq.res = "success"
    /\ tickets[rq.tid].status = Cancelled

C40_UserCancelsOnlyOwnTicket ==
    /\ \A p \in Users, t \in TicketIds :
          tickets[t].userId # p
              => CancelOutcome(tickets, p, t, "http") = "Forbidden"
    /\ \A r \in Slots :
          CancelledBy(req[r]) /\ Role(req[r].user) = "user"
              => tickets[req[r].tid].userId = req[r].user

\* C38: a run of updateQueueETAs writes estimatedTime and nothing else: no
\* step of it changes the status of a ticket or a counter of the queue,
\* whatever was admitted, called, cancelled or completed since it loaded its
\* tickets; and the completion that starts it has its result before the run
\* has taken a step, so the result is the same whether the run ends or not.
ReestimateStep == etaUpdate' # etaUpdate

CompletionAnswers(r) ==
    Took(r, "completeTicket", "save", "done")
        => req'[r].res = "success" /\ etaUpdate' = etaUpdate

C38_ReestimateWritesOnlyEstimatedTime ==
    [][/\ ReestimateStep => tickets' = tickets /\ queue' = queue
       /\ \A r \in Slots : CompletionAnswers(r)]_vars

C38_Witness ==
    \E t \in TicketIds :
        /\ etaUpdate.times[t] > 0
        /\ tickets[t].status = Called
        /\ etaUpdate.pc = "update"
        /\ queue.currentCount > etaUpdate.count

\* C39: a card checkout whose conditional update matches no queue, the
\* payment being taken, asks for a refund of exactly the amount it charged,
\* creates no ticket and no payment record, and leaves the counters of the
\* queue as they were; the update matches nothing because the queue is full
\* or is not active.
RefusedAtUpdate(r) == Took(r, "checkout", "cas", "done")

C39_NoMatchRefundsInFull ==
    [][\A r \in Slots :
          RefusedAtUpdate(r) =>
              /\ ~AdmitFilter(queue, req[r].cap)
              /\ req[r].charge > 0
              /\ req'[r].refund = req[r].charge
              /\ req'[r].pay # "completed" /\ req'[r].tid = 0
              /\ tickets' = tickets
              /\ queue' = queue]_vars

C39_Witness ==
    \E r \in Slots :
        /\ req[r].op = "checkout" /\ req[r].pc = "done"
        /\ req[r].res = QueueFullRefunded
        /\ req[r].refund = 200 /\ req[r].charge = 200
        /\ queue.status = "paused"
        /\ queue.currentCount < queue.maxCapacity

====
